---- MODULE Spec2Model ----
(***************************************************************************)
(* Model of the glimmer LNet acceptor / SOCKLND connection layer           *)
(* (wire/lnet): the listener, one task per accepted connection, the two    *)
(* stage handshake (Negotiate, ProtocolUpgrade) and the KSOCK frame loop.  *)
(*                                                                         *)
(* Integers of the wire are kept as tuples of bytes, most significant byte *)
(* first (the way the value is written in hexadecimal), so that a 32 or 64 *)
(* bit word never leaves the range of the checker's integers and a byte    *)
(* order is something the model computes with.                             *)
(***************************************************************************)
EXTENDS Integers, Sequences, FiniteSets, TLC

\* ------------------------------------------------------------------------
\* Bounds of the model
\* ------------------------------------------------------------------------

\* number of connection slots of the concurrent server specification
MaxConns == 2

\* KSOCK frames one connection reads before the model stops feeding it
MaxFrames == 2

\* ------------------------------------------------------------------------
\* Byte orders (encoding/binary.LittleEndian, encoding/binary.BigEndian)
\* ------------------------------------------------------------------------

Orders == {"LE", "BE"}

\* encoding/binary.NativeEndian: a value of its own, that lays bytes out as the
\* host of the build does
NativeOrders == {"NativeLE", "NativeBE"}

Reverse(s) == [i \in 1..Len(s) |-> s[Len(s) + 1 - i]]

\* ByteOrder.PutUintNN: the bytes of value v (most significant first) as the
\* order o lays them out on the wire
Enc(o, v) == IF o \in {"BE", "NativeBE"} THEN v ELSE Reverse(v)

\* ByteOrder.UintNN: the value (most significant byte first) of wire bytes b
Dec(o, b) == IF o \in {"BE", "NativeBE"} THEN b ELSE Reverse(b)

\* (variant) IsLittleEndian without the probe: any other order is big-endian
IsLittleEndian_NoProbe(byteOrder) == byteOrder = "LE"

\* the switch on the two explicit orders, then the probe: 0x01020304 written
\* in the order and in little-endian
IsLittleEndian(byteOrder) ==
  CASE byteOrder = "LE" -> TRUE
    [] byteOrder = "BE" -> FALSE
    [] OTHER -> Enc(byteOrder, <<1, 2, 3, 4>>) = Enc("LE", <<1, 2, 3, 4>>)

IsBigEndian(byteOrder) == ~IsLittleEndian(byteOrder)

\* (variant) no flip
GetOppositeByteOrder_Same(byteOrder) == byteOrder

GetOppositeByteOrder(byteOrder) == IF IsLittleEndian(byteOrder) THEN "BE" ELSE "LE"

\* init() of the endian utility: DEFAULT_BYTE_ORDER on a host whose
\* binary.NativeEndian is native
init(native) == IF IsLittleEndian(native) THEN "LE" ELSE "BE"

\* a small unsigned value as a 32 bit word
U32(n) == <<0, 0, 0, n>>

\* a small unsigned value as a 64 bit word
U64(n) == <<0, 0, 0, 0, 0, 0, 0, n>>

Zero32 == U32(0)

\* ------------------------------------------------------------------------
\* Protocol constants (protocol.go)
\* ------------------------------------------------------------------------

PROTO_MAGIC_ACCEPTOR == <<172, 206, 113, 0>>

PROTO_MAGIC_ACCEPTOR_REV == <<0, 113, 206, 172>>

PROTO_MAGIC_GENERIC == <<69, 114, 105, 99>>

PROTO_MAGIC_TCP == <<238, 188, 13, 237>>

KSOCK_MSG_NOOP == U32(192)

KSOCK_MSG_LNET == U32(193)

LNET_MSG_ACK == U32(0)

LNET_MSG_PUT == U32(1)

LNET_MSG_GET == U32(2)

LNET_MSG_REPLY == U32(3)

LNET_MSG_HELLO == U32(4)

\* init() of the commands: it panics when LNET_MSG_HELLO is not 4, and the
\* process never runs
initCommands == IF LNET_MSG_HELLO # U32(4) THEN "panicked" ELSE "running"

NETWORK_TYPE_TCP == 2

NETWORK_TYPE_O2IB == 5

NETWORK_TYPE_LO == 9

NETWORK_TYPE_ANY == 255

DEFAULT_PORT == 988

NetworkTypeString(netType) ==
  CASE netType = NETWORK_TYPE_TCP -> "tcp"
    [] netType = NETWORK_TYPE_O2IB -> "o2ib"
    [] netType = NETWORK_TYPE_LO -> "lo"
    [] netType = NETWORK_TYPE_ANY -> "any"
    [] OTHER -> "unknown"

\* ------------------------------------------------------------------------
\* Network identifiers (netid.go)
\* ------------------------------------------------------------------------

\* the nil NID interface value (RemoteConn.NID before Negotiate stores one)
NilNID ==
  [variant |-> "nil", Size |-> 0, Type |-> 0, NetworkIndex |-> <<0, 0>>,
   Addr |-> <<>>, Port |-> 0]

NID64(size, type, index, addr0, port) ==
  [variant |-> "NID64", Size |-> size, Type |-> type, NetworkIndex |-> index,
   Addr |-> <<addr0>>, Port |-> port]

ExtendedNID(size, type, index, addr, port) ==
  [variant |-> "ExtendedNID", Size |-> size, Type |-> type, NetworkIndex |-> index,
   Addr |-> addr, Port |-> port]

AnyNID == NID64(255, NETWORK_TYPE_ANY, <<0, 255>>, <<255, 255, 255, 255>>, DEFAULT_PORT)

IsAny(nid) == nid.Type = NETWORK_TYPE_ANY

\* (variant) the header read field by field, the way ToBytes writes it
ReadNID_FieldWise(o, in) ==
  IF Len(in) < 8
  THEN [err |-> "failed to read NID header", nid |-> NilNID, consumed |-> Len(in)]
  ELSE [err |-> "", consumed |-> 8,
        nid |-> NID64(in[1], in[2], <<in[3], in[4]>>, SubSeq(in, 5, 8), DEFAULT_PORT)]

\* ReadNID applied to the bytes `in` the peer supplies next, in byte order o.
\* err is "" on success; consumed is the number of bytes taken from the stream.
ReadNID(o, in) ==
  IF Len(in) < 8
  THEN [err |-> "failed to read NID header", nid |-> NilNID, consumed |-> Len(in)]
  ELSE
    LET rawHeader == Dec(o, SubSeq(in, 1, 8))
        addr0 == SubSeq(rawHeader, 5, 8)
        size == rawHeader[1]
        type == rawHeader[2]
        index == <<rawHeader[3], rawHeader[4]>>
    IN  CASE type = NETWORK_TYPE_ANY ->
               [err |-> "", nid |-> AnyNID, consumed |-> 8]
          [] type # NETWORK_TYPE_ANY /\ size = 0 ->
               [err |-> "", consumed |-> 8,
                nid |-> NID64(size, type, index, addr0, DEFAULT_PORT)]
          [] type # NETWORK_TYPE_ANY /\ size = 2 ->
               [err |-> "IPv4 + Port not yet supported", nid |-> NilNID, consumed |-> 8]
          [] type # NETWORK_TYPE_ANY /\ size = 12 ->
               IF Len(in) < 20
               THEN [err |-> "failed to read ExtendedNID address", nid |-> NilNID,
                     consumed |-> Len(in)]
               ELSE [err |-> "", consumed |-> 20,
                     nid |-> ExtendedNID(size, type, index,
                                         <<addr0,
                                           Dec(o, SubSeq(in, 9, 12)),
                                           Dec(o, SubSeq(in, 13, 16)),
                                           Dec(o, SubSeq(in, 17, 20))>>,
                                         DEFAULT_PORT)]
          [] type # NETWORK_TYPE_ANY /\ size = 14 ->
               [err |-> "IPv6 + Port not yet supported", nid |-> NilNID, consumed |-> 8]
          [] OTHER ->
               [err |-> "unsupported NID size", nid |-> NilNID, consumed |-> 8]

\* RawNID64.ToNID64: the fields of the 64 bit word rawNid
ToNID64(rawNid) ==
  IF rawNid[2] = NETWORK_TYPE_ANY
  THEN AnyNID
  ELSE NID64(rawNid[1], rawNid[2], <<rawNid[3], rawNid[4]>>, SubSeq(rawNid, 5, 8),
             DEFAULT_PORT)

\* NID64.NetAddr: the four bytes of the address word, most significant first.
\* ExtendedNID.NetAddr discards the result of AppendUint32 and converts an
\* empty slice to [16]byte, which panics.
NetAddr(nid) ==
  IF nid.variant = "NID64"
  THEN [panic |-> FALSE, addr |-> nid.Addr[1]]
  ELSE [panic |-> TRUE, addr |-> <<>>]

IndexValue(index) == index[1] * 256 + index[2]

\* NID64.String: "<addr>@<type><index>#<port>", kept as its parts
NIDString(nid) ==
  [addr |-> NetAddr(nid).addr, net |-> NetworkTypeString(nid.Type),
   index |-> IndexValue(nid.NetworkIndex), port |-> <<nid.Port>>]

\* ------------------------------------------------------------------------
\* Raw NID forms and the HELLO message (netid.go, protocol.go)
\* ------------------------------------------------------------------------

\* binary.Read of a RawExtendedNID: two single bytes, a 16 bit index and four
\* 32 bit address words, each in byte order o
DecRawExtendedNID(o, b) ==
  [Size |-> b[1], Type |-> b[2], NetworkIndex |-> Dec(o, SubSeq(b, 3, 4)),
   Addr |-> <<Dec(o, SubSeq(b, 5, 8)), Dec(o, SubSeq(b, 9, 12)),
              Dec(o, SubSeq(b, 13, 16)), Dec(o, SubSeq(b, 17, 20))>>]

\* binary.Write of a RawExtendedNID
EncRawExtendedNID(o, r) ==
  <<r.Size, r.Type>> \o Enc(o, r.NetworkIndex) \o Enc(o, r.Addr[1]) \o
  Enc(o, r.Addr[2]) \o Enc(o, r.Addr[3]) \o Enc(o, r.Addr[4])

ZeroRawExtendedNID ==
  [Size |-> 0, Type |-> 0, NetworkIndex |-> <<0, 0>>,
   Addr |-> <<Zero32, Zero32, Zero32, Zero32>>]

\* binary.Read of a helloResponseCommonTail (32 bytes)
DecCommonTail(o, b) ==
  [SourcePID |-> Dec(o, SubSeq(b, 1, 4)),
   DestPID |-> Dec(o, SubSeq(b, 5, 8)),
   SourceIncarnation |-> Dec(o, SubSeq(b, 9, 16)),
   DestIncarnation |-> Dec(o, SubSeq(b, 17, 24)),
   ConnType |-> Dec(o, SubSeq(b, 25, 28)),
   NIPs |-> Dec(o, SubSeq(b, 29, 32))]

\* binary.Write of a helloResponseCommonTail
EncCommonTail(o, t) ==
  Enc(o, t.SourcePID) \o Enc(o, t.DestPID) \o Enc(o, t.SourceIncarnation) \o
  Enc(o, t.DestIncarnation) \o Enc(o, t.ConnType) \o Enc(o, t.NIPs)

ZeroCommonTail ==
  [SourcePID |-> Zero32, DestPID |-> Zero32, SourceIncarnation |-> U64(0),
   DestIncarnation |-> U64(0), ConnType |-> Zero32, NIPs |-> Zero32]

\* (variant) the destination PID of the request is left in the reply
handleCommon_KeepsDestPID(commonTail, rnd) ==
  IF commonTail.NIPs # Zero32
  THEN [err |-> "unsupported non-zero NIPs value", tail |-> ZeroCommonTail]
  ELSE [err |-> "",
        tail |-> [commonTail EXCEPT !.SourceIncarnation = rnd,
                                    !.DestIncarnation = commonTail.SourceIncarnation,
                                    !.ConnType = IF @ = U32(2) THEN U32(3) ELSE @]]

\* the closure handleCommon of ProtocolUpgrade, applied to the tail it read and
\* to the value rand.Uint64() returned
handleCommon(commonTail, rnd) ==
  IF commonTail.NIPs # Zero32
  THEN [err |-> "unsupported non-zero NIPs value", tail |-> ZeroCommonTail]
  ELSE [err |-> "",
        tail |-> [SourcePID |-> commonTail.SourcePID,
                  DestPID |-> commonTail.SourcePID,
                  SourceIncarnation |-> rnd,
                  DestIncarnation |-> commonTail.SourceIncarnation,
                  ConnType |-> IF commonTail.ConnType = U32(2) THEN U32(3)
                               ELSE commonTail.ConnType,
                  NIPs |-> commonTail.NIPs]]

\* the helloResponseV2 ProtocolUpgrade writes for protocol versions 2 and 3
HelloResponseV2(o, protocolMagic, protocolVersion, rawSourceNID64, rawDestNID64, tail) ==
  Enc(o, protocolMagic) \o Enc(o, protocolVersion) \o
  Enc(o, rawDestNID64) \o Enc(o, rawSourceNID64) \o EncCommonTail(o, tail)

\* the helloResponse ProtocolUpgrade writes for protocol version 4; its magic
\* is remote.Protocol
HelloResponseV4(o, remoteProtocol, protocolVersion, rawSourceENid, rawDestENid, tail) ==
  Enc(o, remoteProtocol) \o Enc(o, protocolVersion) \o
  EncRawExtendedNID(o, rawDestENid) \o EncRawExtendedNID(o, rawSourceENid) \o
  EncCommonTail(o, tail)

\* switch acceptorMagic in Negotiate: the error ("" when none) and the byte
\* order of the connection afterwards
AcceptorMagicSwitch(byteOrder, acceptorMagic) ==
  CASE acceptorMagic = PROTO_MAGIC_ACCEPTOR_REV ->
         [err |-> "", order |-> GetOppositeByteOrder(byteOrder)]
    [] acceptorMagic = PROTO_MAGIC_GENERIC ->
         [err |-> "Generic protocol not supported by LNetClient yet", order |-> byteOrder]
    [] acceptorMagic = PROTO_MAGIC_ACCEPTOR ->
         [err |-> "", order |-> byteOrder]
    [] OTHER ->
         [err |-> "invalid acceptor magic", order |-> byteOrder]

\* (variant) acceptor version 3 taken as supported
AcceptorVersionSupported_UpTo3(acceptorVersion) ==
  acceptorVersion \in {U32(1), U32(2), U32(3)}

\* switch acceptorVersion in Negotiate: the versions whose case reads the NID
AcceptorVersionSupported(acceptorVersion) ==
  acceptorVersion = U32(1) \/ acceptorVersion = U32(2)

\* the warning of Negotiate about a source NID of the other variant
VariantWarning(acceptorVersion, nid) ==
  \/ acceptorVersion = U32(1) /\ nid.variant # "NID64"
  \/ acceptorVersion = U32(2) /\ nid.variant # "ExtendedNID"

\* (variant) the magic the peer sent is kept as the protocol of the connection
ProtocolMagicSwitch_KeepsMagic(protocol, protocolMagic) ==
  IF protocolMagic \in {PROTO_MAGIC_GENERIC, PROTO_MAGIC_TCP}
  THEN [err |-> "", protocol |-> protocolMagic]
  ELSE [err |-> "unsupported protocol magic", protocol |-> protocol]

\* switch protocolMagic in ProtocolUpgrade: the error and remote.Protocol after
ProtocolMagicSwitch(protocol, protocolMagic) ==
  CASE protocolMagic = PROTO_MAGIC_GENERIC ->
         [err |-> "", protocol |-> PROTO_MAGIC_TCP]
    [] protocolMagic = PROTO_MAGIC_TCP ->
         [err |-> "", protocol |-> PROTO_MAGIC_TCP]
    [] OTHER ->
         [err |-> "unsupported protocol magic", protocol |-> protocol]

\* switch protocolVersion in ProtocolUpgrade: 0 for the default case, else the
\* number of bytes of each raw NID the case reads
ProtocolVersionNIDBytes(protocolVersion) ==
  CASE protocolVersion = U32(2) \/ protocolVersion = U32(3) -> 8
    [] protocolVersion = U32(4) -> 20
    [] OTHER -> 0

\* ------------------------------------------------------------------------
\* State
\* ------------------------------------------------------------------------

VARIABLES
  DEFAULT_BYTE_ORDER,  \* the process wide byte order set by init() of the endian utility
  clientByteOrder,     \* LNetClient.ByteOrder of the server's client
  proc,                \* "running", or "panicked" once a goroutine panicked
  listener,            \* "listening" or "closed": the listening socket of Listen
  cancelled,           \* the context of Listen is cancelled
  listenResult,        \* "" while Listen runs, then "nil" or "error"
  LocalAddrs,          \* LNetClient.LocalAddrs: the catalog of local addresses
  conn,                \* per connection slot: the task running handleConnection
  codec                \* a caller of the codec functions: its arguments and results

vars ==
  <<DEFAULT_BYTE_ORDER, clientByteOrder, proc, listener, cancelled, listenResult,
    LocalAddrs, conn, codec>>

Conns == 1..MaxConns

\* the locals of Negotiate and ProtocolUpgrade
NoLocals ==
  [acceptorMagic |-> <<>>, acceptorVersion |-> <<>>, warned |-> FALSE,
   protocolMagic |-> <<>>, protocolVersion |-> <<>>,
   rawSourceNID64 |-> <<>>, rawDestNID64 |-> <<>>,
   rawSourceENid |-> ZeroRawExtendedNID, rawDestENid |-> ZeroRawExtendedNID,
   commonTail |-> ZeroCommonTail]

\* LNetMessage{}
NilMessage ==
  [DestNID |-> NilNID, SourceNID |-> NilNID, DestPID |-> Zero32, SourcePID |-> Zero32,
   MessageType |-> Zero32, PayloadLength |-> Zero32, LNetCommand |-> <<>>, Payload |-> <<>>]

\* no caller of the codec functions
NoCodec ==
  [pc |-> "off", order |-> "", addr |-> <<>>, netNum |-> <<0, 0>>, portNum |-> 0,
   type |-> Zero32, nilCommand |-> FALSE, payload |-> <<>>, stored |-> Zero32,
   err |-> "", nid |-> NilNID, nidBytes |-> <<>>,
   nidBack |-> [err |-> "", nid |-> NilNID, consumed |-> 0], nid64 |-> NilNID,
   message |-> NilMessage, bytes |-> <<>>,
   back |-> [err |-> "", message |-> NilMessage, consumed |-> 0]]

\* a slot no connection was accepted on yet
IdleConn ==
  [pc |-> "idle",
   open |-> FALSE,           \* the net.Conn is open
   ByteOrder |-> "",         \* RemoteConn.ByteOrder
   Protocol |-> Zero32,      \* RemoteConn.Protocol
   NID |-> NilNID,           \* RemoteConn.NID
   loc |-> NoLocals,
   rx |-> <<>>,              \* bytes read from the peer in the current phase or frame
   msg |-> NilMessage,       \* the message ReadCommand returned last
   reply |-> NilMessage,     \* the reply HandlePing built last
   calls |-> 0,              \* calls of registered handlers
   handled |-> <<>>,         \* the GETs HandleGet was called with: ReturnWMD, MatchBits
   out |-> <<>>,             \* bytes written to the peer since the handshake or the frame loop began
   writes |-> 0,             \* Write calls that wrote all their bytes
   phases |-> <<>>,          \* phases this connection completed, in order
   frames |-> 0,             \* KSOCK headers read
   err |-> "",               \* the error that ended the connection
   errValue |-> <<>>]        \* the value the error reports

HandshakePCs ==
  {"acceptorMagic", "acceptorVersion", "acceptorNID",
   "protocolMagic", "protocolVersion", "helloSource", "helloDest", "commonTail"}

FramePCs == {"ksockHeader", "lnetMessage"}

TypeOK ==
  /\ DEFAULT_BYTE_ORDER \in Orders
  /\ clientByteOrder \in Orders
  /\ proc \in {"running", "panicked"}
  /\ listener \in {"listening", "closed"}
  /\ cancelled \in BOOLEAN
  /\ listenResult \in {"", "nil", "error"}
  /\ \A c \in DOMAIN conn :
       conn[c].pc \in {"idle", "negotiated", "closed"} \cup HandshakePCs \cup FramePCs

\* init() of the endian utility detects the host order; NewLNetServer builds the
\* client with it; Listen has bound its socket
InitWith(slots, catalogs) ==
  /\ DEFAULT_BYTE_ORDER \in {init(native) : native \in NativeOrders}
  /\ clientByteOrder = DEFAULT_BYTE_ORDER
  /\ proc = initCommands
  /\ listener = "listening"
  /\ cancelled = FALSE
  /\ listenResult = ""
  /\ LocalAddrs \in catalogs
  /\ conn = [c \in slots |-> IdleConn]
  /\ codec = NoCodec

\* ------------------------------------------------------------------------
\* The listener (LNetServer.Listen)
\* ------------------------------------------------------------------------

\* listener.Accept returns a connection; go handleConnection builds the
\* RemoteConn with the client's byte order
Accept(c) ==
  /\ proc = "running"
  /\ listenResult = ""
  /\ listener = "listening"
  /\ conn[c].pc = "idle"
  /\ conn' = [conn EXCEPT ![c] =
                [IdleConn EXCEPT !.pc = "acceptorMagic", !.open = TRUE,
                                 !.ByteOrder = clientByteOrder]]
  /\ UNCHANGED <<DEFAULT_BYTE_ORDER, clientByteOrder, proc, listener, cancelled, listenResult, LocalAddrs, codec>>

\* the context of Listen is cancelled (a signal)
Cancel ==
  /\ proc = "running"
  /\ ~cancelled
  /\ cancelled' = TRUE
  /\ UNCHANGED <<DEFAULT_BYTE_ORDER, clientByteOrder, proc, listener, listenResult, LocalAddrs, conn, codec>>

\* context.AfterFunc runs closeListener once the context is cancelled
AfterFuncCloseListener ==
  /\ proc = "running"
  /\ cancelled
  /\ listener = "listening"
  /\ listener' = "closed"
  /\ UNCHANGED <<DEFAULT_BYTE_ORDER, clientByteOrder, proc, cancelled, listenResult, LocalAddrs, conn, codec>>

\* (variant) Listen returns the error of Accept without looking at ctx.Err()
AcceptError_AlwaysError(failed) ==
  /\ proc = "running"
  /\ listenResult = ""
  /\ listener = "closed" \/ failed
  /\ listenResult' = "error"
  /\ listener' = "closed"
  /\ UNCHANGED <<DEFAULT_BYTE_ORDER, clientByteOrder, proc, cancelled, LocalAddrs, conn, codec>>

\* listener.Accept returns an error: the socket was closed, or the accept
\* itself failed (failed = TRUE); Listen returns nil when the context is
\* cancelled and the error otherwise, and its deferred closeListener runs
AcceptError(failed) ==
  /\ proc = "running"
  /\ listenResult = ""
  /\ listener = "closed" \/ failed
  /\ listenResult' = IF cancelled THEN "nil" ELSE "error"
  /\ listener' = "closed"
  /\ UNCHANGED <<DEFAULT_BYTE_ORDER, clientByteOrder, proc, cancelled, LocalAddrs, conn, codec>>

\* ------------------------------------------------------------------------
\* One connection: handleConnection, Negotiate, ProtocolUpgrade
\* ------------------------------------------------------------------------

Globals ==
  <<DEFAULT_BYTE_ORDER, clientByteOrder, proc, listener, cancelled, listenResult, LocalAddrs,
    codec>>

Running(c, at) == proc = "running" /\ conn[c].pc = at

\* the task of connection c goes on as r
Becomes(c, r) == conn' = [conn EXCEPT ![c] = r] /\ UNCHANGED Globals

\* handleConnection returned: its deferred conn.Close() ran, and the RemoteConn
\* and the locals of the task are gone; what is left is what the peer saw
Closed(r, err, value) ==
  [IdleConn EXCEPT !.pc = "closed", !.err = err, !.errValue = value,
                   !.out = r.out, !.phases = r.phases, !.calls = r.calls]

\* (variant) handleConnection ignores the error of Negotiate
NegotiationFailed_Ignored(r, err, value) ==
  [r EXCEPT !.pc = "ksockHeader", !.loc = NoLocals, !.rx = <<>>]

\* (variant) handleConnection returns without closing the stream
NegotiationFailed_NoClose(r, err, value) == [Closed(r, err, value) EXCEPT !.open = TRUE]

\* Negotiate returned the error: handleConnection logs it and returns
NegotiationFailed(r, err, value) == Closed(r, err, value)

\* (variant) the flip is stored in the client, which every connection shares
ReadAcceptorMagic_FlipsClient(c, inputs) ==
  /\ Running(c, "acceptorMagic")
  /\ \E in \in inputs :
       /\ Len(in) = 4
       /\ LET r == conn[c]
              acceptorMagic == Dec(r.ByteOrder, in)
              sw == AcceptorMagicSwitch(r.ByteOrder, acceptorMagic)
          IN  /\ sw.err = ""
              /\ conn' = [conn EXCEPT ![c] = [r EXCEPT !.pc = "acceptorVersion",
                                                       !.ByteOrder = sw.order,
                                                       !.loc.acceptorMagic = acceptorMagic,
                                                       !.rx = in]]
              /\ clientByteOrder' = sw.order
              /\ UNCHANGED <<DEFAULT_BYTE_ORDER, proc, listener, cancelled, listenResult, LocalAddrs, codec>>

\* Negotiate: binary.Read of the acceptor magic and the switch on it
ReadAcceptorMagic(c, inputs) ==
  /\ Running(c, "acceptorMagic")
  /\ \E in \in inputs :
       /\ Len(in) <= 4
       /\ LET r == conn[c]
              acceptorMagic == Dec(r.ByteOrder, in)
              sw == AcceptorMagicSwitch(r.ByteOrder, acceptorMagic)
          IN  IF Len(in) < 4
              THEN Becomes(c, NegotiationFailed(r, "failed to read acceptor magic", <<>>))
              ELSE IF sw.err # ""
              THEN Becomes(c, NegotiationFailed(r, sw.err, acceptorMagic))
              ELSE Becomes(c, [r EXCEPT !.pc = "acceptorVersion",
                                        !.ByteOrder = sw.order,
                                        !.loc.acceptorMagic = acceptorMagic,
                                        !.rx = in])

\* Negotiate: binary.Read of the acceptor version and the switch on it
ReadAcceptorVersion(c, inputs) ==
  /\ Running(c, "acceptorVersion")
  /\ \E in \in inputs :
       /\ Len(in) <= 4
       /\ LET r == conn[c]
              acceptorVersion == Dec(r.ByteOrder, in)
          IN  IF Len(in) < 4
              THEN Becomes(c, NegotiationFailed(r, "failed to read acceptor version", <<>>))
              ELSE IF ~AcceptorVersionSupported(acceptorVersion)
              THEN Becomes(c, NegotiationFailed(r, "unsupported acceptor version", acceptorVersion))
              ELSE Becomes(c, [r EXCEPT !.pc = "acceptorNID",
                                        !.loc.acceptorVersion = acceptorVersion,
                                        !.rx = @ \o in])

\* Negotiate: ReadNID of the source NID, the warning, remote.NID = sourceNID
\* and the call of ProtocolUpgrade
ReadSourceNID(c, inputs) ==
  /\ Running(c, "acceptorNID")
  /\ \E in \in inputs :
       /\ LET r == conn[c]
              res == ReadNID(r.ByteOrder, in)
          IN  /\ res.consumed = Len(in)
              /\ IF res.err # ""
                 THEN Becomes(c, NegotiationFailed(r, "failed to read source NID", in))
                 ELSE Becomes(c, [r EXCEPT !.pc = "protocolMagic",
                                           !.NID = res.nid,
                                           !.loc.warned = VariantWarning(r.loc.acceptorVersion, res.nid),
                                           !.rx = @ \o in,
                                           !.phases = Append(@, "acceptor")])

\* ProtocolUpgrade: binary.Read of the protocol magic and the switch on it
ReadProtocolMagic(c, inputs) ==
  /\ Running(c, "protocolMagic")
  /\ \E in \in inputs :
       /\ Len(in) <= 4
       /\ LET r == conn[c]
              protocolMagic == Dec(r.ByteOrder, in)
              sw == ProtocolMagicSwitch(r.Protocol, protocolMagic)
          IN  IF Len(in) < 4
              THEN Becomes(c, NegotiationFailed(r, "failed to read protocol magic", <<>>))
              ELSE IF sw.err # ""
              THEN Becomes(c, NegotiationFailed(r, sw.err, protocolMagic))
              ELSE Becomes(c, [r EXCEPT !.pc = "protocolVersion",
                                        !.Protocol = sw.protocol,
                                        !.loc.protocolMagic = protocolMagic,
                                        !.rx = in])

\* ProtocolUpgrade: binary.Read of the protocol version and the switch on it
ReadProtocolVersion(c, inputs) ==
  /\ Running(c, "protocolVersion")
  /\ \E in \in inputs :
       /\ Len(in) <= 4
       /\ LET r == conn[c]
              protocolVersion == Dec(r.ByteOrder, in)
          IN  IF Len(in) < 4
              THEN Becomes(c, NegotiationFailed(r, "failed to read protocol version", <<>>))
              ELSE IF ProtocolVersionNIDBytes(protocolVersion) = 0
              THEN Becomes(c, NegotiationFailed(r, "unsupported protocol version", protocolVersion))
              ELSE Becomes(c, [r EXCEPT !.pc = "helloSource",
                                        !.loc.protocolVersion = protocolVersion,
                                        !.rx = @ \o in])

\* ProtocolUpgrade: binary.Read of the raw source NID (RawNID64 for versions 2
\* and 3, RawExtendedNID for version 4)
ReadHelloSource(c, inputs) ==
  /\ Running(c, "helloSource")
  /\ \E in \in inputs :
       /\ LET r == conn[c]
              n == ProtocolVersionNIDBytes(r.loc.protocolVersion)
          IN  /\ Len(in) <= n
              /\ IF Len(in) < n
                 THEN Becomes(c, NegotiationFailed(r, "failed to read source NID in protocol version", <<>>))
                 ELSE IF n = 8
                 THEN Becomes(c, [r EXCEPT !.pc = "helloDest",
                                           !.loc.rawSourceNID64 = Dec(r.ByteOrder, in),
                                           !.rx = @ \o in])
                 ELSE Becomes(c, [r EXCEPT !.pc = "helloDest",
                                           !.loc.rawSourceENid = DecRawExtendedNID(r.ByteOrder, in),
                                           !.rx = @ \o in])

\* ProtocolUpgrade: binary.Read of the raw destination NID
ReadHelloDest(c, inputs) ==
  /\ Running(c, "helloDest")
  /\ \E in \in inputs :
       /\ LET r == conn[c]
              n == ProtocolVersionNIDBytes(r.loc.protocolVersion)
          IN  /\ Len(in) <= n
              /\ IF Len(in) < n
                 THEN Becomes(c, NegotiationFailed(r, "failed to read destination NID in protocol version", <<>>))
                 ELSE IF n = 8
                 THEN Becomes(c, [r EXCEPT !.pc = "commonTail",
                                           !.loc.rawDestNID64 = Dec(r.ByteOrder, in),
                                           !.rx = @ \o in])
                 ELSE Becomes(c, [r EXCEPT !.pc = "commonTail",
                                           !.loc.rawDestENid = DecRawExtendedNID(r.ByteOrder, in),
                                           !.rx = @ \o in])

\* how a Write may end: all bytes written, or an error after none or some
\* (the concurrent server specification leaves the partial write out)
WriteOutcomes(rich) == IF rich THEN {"all", "none", "some"} ELSE {"all", "none"}

\* the bytes a Write of b leaves on the wire
Written(b, w) ==
  CASE w = "all" -> b
    [] w = "none" -> <<>>
    [] OTHER -> SubSeq(b, 1, 4)

\* ProtocolUpgrade: handleCommon (binary.Read of the common tail, the check of
\* NIPs, the reply tail with rand.Uint64() = rnd) and the binary.Write of the
\* response, which ends as w
ReadCommonTailAndReply(c, inputs, rnds, ws) ==
  /\ Running(c, "commonTail")
  /\ \E in \in inputs, rnd \in rnds, w \in ws :
       /\ Len(in) <= 32
       /\ LET r == conn[c]
              l == r.loc
              hc == handleCommon(DecCommonTail(r.ByteOrder, in), rnd)
              response ==
                IF ProtocolVersionNIDBytes(l.protocolVersion) = 8
                THEN HelloResponseV2(r.ByteOrder, l.protocolMagic, l.protocolVersion,
                                     l.rawSourceNID64, l.rawDestNID64, hc.tail)
                ELSE HelloResponseV4(r.ByteOrder, r.Protocol, l.protocolVersion,
                                     l.rawSourceENid, l.rawDestENid, hc.tail)
          IN  IF Len(in) < 32
              THEN Becomes(c, NegotiationFailed(r, "failed to read common tail", <<>>))
              ELSE IF hc.err # ""
              THEN Becomes(c, NegotiationFailed(r, hc.err, DecCommonTail(r.ByteOrder, in).NIPs))
              ELSE IF w # "all"
                   THEN Becomes(c, NegotiationFailed([r EXCEPT !.out = @ \o Written(response, w)],
                                                     "failed to write hello response", <<>>))
                   ELSE Becomes(c, [r EXCEPT !.pc = "negotiated",
                                                !.loc.commonTail = DecCommonTail(r.ByteOrder, in),
                                                !.rx = @ \o in,
                                                !.out = @ \o response,
                                                !.writes = @ + 1,
                                                !.phases = Append(@, "hello")])

\* handleConnection: Negotiate returned nil; the locals of the handshake are
\* gone and handleCommands starts its loop
StartCommands(c) ==
  /\ Running(c, "negotiated")
  /\ Becomes(c, [conn[c] EXCEPT !.pc = "ksockHeader", !.loc = NoLocals, !.rx = <<>>,
                                !.out = <<>>, !.phases = Append(@, "frames")])

\* ------------------------------------------------------------------------
\* LNet messages (command.go) and PING (ping.go)
\* ------------------------------------------------------------------------

LNET_PROTO_PING_MATCHBITS == <<128, 0, 0, 0, 0, 0, 0, 0>>

LNET_PING_MAGIC == <<112, 105, 110, 103>>

PING_NI_STATUS_UP == <<21, 170, 192, 222>>

\* PING_FEATURE_PING | PING_FEATURE_NI_STATUS
PingFeatures == U32(3)

\* (variant) the switch on MessageType has no failing default case: a message
\* of another type is read with the body of a HELLO
CommandFields_AnyType(messageType) ==
  CASE messageType = U32(0) -> <<8, 8, 8, 4>>
    [] messageType = U32(1) -> <<8, 8, 8, 8, 4, 4>>
    [] messageType = U32(2) -> <<8, 8, 8, 4, 4, 4>>
    [] messageType = U32(3) -> <<8, 8>>
    [] OTHER -> <<8, 4>>

\* the widths in bytes of the fields of each command body, in wire order:
\* LNetAckCommand, LNetPutCommand, LNetGetCommand, LNetReplyCommand, LNetHelloCommand
CommandFields(messageType) ==
  CASE messageType = LNET_MSG_ACK -> <<8, 8, 8, 4>>
    [] messageType = LNET_MSG_PUT -> <<8, 8, 8, 8, 4, 4>>
    [] messageType = LNET_MSG_GET -> <<8, 8, 8, 4, 4, 4>>
    [] messageType = LNET_MSG_REPLY -> <<8, 8>>
    [] messageType = LNET_MSG_HELLO -> <<8, 4>>
    [] OTHER -> <<>>

RECURSIVE Sum(_)
Sum(ws) == IF ws = <<>> THEN 0 ELSE Head(ws) + Sum(Tail(ws))

\* binary.Read of a struct of unsigned fields of the widths ws: its field values
RECURSIVE DecFields(_, _, _)
DecFields(o, ws, b) ==
  IF ws = <<>> THEN <<>>
  ELSE <<Dec(o, SubSeq(b, 1, Head(ws)))>> \o
       DecFields(o, Tail(ws), SubSeq(b, Head(ws) + 1, Len(b)))

\* binary.Write of a struct of unsigned fields
RECURSIVE EncFields(_, _)
EncFields(o, fs) ==
  IF fs = <<>> THEN <<>> ELSE Enc(o, Head(fs)) \o EncFields(o, Tail(fs))

\* a 32 bit length as a number (the model feeds lengths below 2^16)
LenValue(v) == v[3] * 256 + v[4]

\* len(x) as a uint32
LenWord(n) == <<0, 0, n \div 256, n % 256>>

Zeros(n) == [i \in 1..n |-> 0]

\* (variant) ReadCommand stores the NID it reads first as the source NID
ReadCommand_SourceFirst(o, in) ==
  LET d == ReadNID(o, in)
      in2 == SubSeq(in, d.consumed + 1, Len(in))
      s == ReadNID(o, in2)
      in3 == SubSeq(in2, s.consumed + 1, Len(in2))
      hdr == DecFields(o, <<4, 4, 4, 4>>, in3)
      in4 == SubSeq(in3, 17, Len(in3))
      ws == CommandFields(hdr[3])
      in5 == SubSeq(in4, Sum(ws) + 1, Len(in4))
      n == LenValue(hdr[4])
      k == IF Len(in5) < n THEN Len(in5) ELSE n
      message == [DestNID |-> s.nid, SourceNID |-> d.nid, DestPID |-> hdr[1],
                  SourcePID |-> hdr[2], MessageType |-> hdr[3], PayloadLength |-> hdr[4],
                  LNetCommand |-> <<>>, Payload |-> <<>>]
  IN  IF d.err # ""
      THEN [err |-> d.err, message |-> NilMessage, consumed |-> d.consumed]
      ELSE IF s.err # ""
      THEN [err |-> s.err, message |-> NilMessage, consumed |-> d.consumed + s.consumed]
      ELSE IF Len(in3) < 16
      THEN [err |-> "error reading message tail", message |-> NilMessage,
            consumed |-> Len(in)]
      ELSE IF ws = <<>>
      THEN [err |-> "unsupported LNET message type", message |-> message,
            consumed |-> d.consumed + s.consumed + 16]
      ELSE IF Len(in4) < Sum(ws)
      THEN [err |-> "error reading LNET message", message |-> message,
            consumed |-> Len(in)]
      ELSE IF n > 0 /\ Len(in5) = 0
      THEN [err |-> "error reading LNET message payload",
            message |-> [message EXCEPT !.LNetCommand = DecFields(o, ws, in4),
                                        !.Payload = Zeros(n)],
            consumed |-> Len(in)]
      ELSE [err |-> "",
            message |-> [message EXCEPT !.LNetCommand = DecFields(o, ws, in4),
                                        !.Payload = SubSeq(in5, 1, k) \o Zeros(n - k)],
            consumed |-> d.consumed + s.consumed + 16 + Sum(ws) + k]

\* ReadCommand applied to the bytes `in` the peer supplies next: two ReadNID
\* (the first is stored as DestNID), the LNetHeaderEmbed, the command body
\* selected by MessageType, and one Read call for the payload
ReadCommand(o, in) ==
  LET d == ReadNID(o, in)
      in2 == SubSeq(in, d.consumed + 1, Len(in))
      s == ReadNID(o, in2)
      in3 == SubSeq(in2, s.consumed + 1, Len(in2))
      hdr == DecFields(o, <<4, 4, 4, 4>>, in3)
      in4 == SubSeq(in3, 17, Len(in3))
      ws == CommandFields(hdr[3])
      in5 == SubSeq(in4, Sum(ws) + 1, Len(in4))
      n == LenValue(hdr[4])
      k == IF Len(in5) < n THEN Len(in5) ELSE n
      message == [DestNID |-> d.nid, SourceNID |-> s.nid, DestPID |-> hdr[1],
                  SourcePID |-> hdr[2], MessageType |-> hdr[3], PayloadLength |-> hdr[4],
                  LNetCommand |-> <<>>, Payload |-> <<>>]
  IN  IF d.err # ""
      THEN [err |-> d.err, message |-> NilMessage, consumed |-> d.consumed]
      ELSE IF s.err # ""
      THEN [err |-> s.err, message |-> NilMessage, consumed |-> d.consumed + s.consumed]
      ELSE IF Len(in3) < 16
      THEN [err |-> "error reading message tail", message |-> NilMessage,
            consumed |-> Len(in)]
      ELSE IF ws = <<>>
      THEN [err |-> "unsupported LNET message type", message |-> message,
            consumed |-> d.consumed + s.consumed + 16]
      ELSE IF Len(in4) < Sum(ws)
      THEN [err |-> "error reading LNET message", message |-> message,
            consumed |-> Len(in)]
      ELSE IF n > 0 /\ Len(in5) = 0
      THEN [err |-> "error reading LNET message payload",
            message |-> [message EXCEPT !.LNetCommand = DecFields(o, ws, in4),
                                        !.Payload = Zeros(n)],
            consumed |-> Len(in)]
      ELSE [err |-> "",
            message |-> [message EXCEPT !.LNetCommand = DecFields(o, ws, in4),
                                        !.Payload = SubSeq(in5, 1, k) \o Zeros(n - k)],
            consumed |-> d.consumed + s.consumed + 16 + Sum(ws) + k]

\* (variant) ToBytes appends the 16 bit port
NIDToBytes_WithPort(o, nid) ==
  <<nid.Size, nid.Type>> \o Enc(o, nid.NetworkIndex) \o EncFields(o, nid.Addr) \o
  Enc(o, <<nid.Port \div 256, nid.Port % 256>>)

\* NID64.ToBytes and ExtendedNID.ToBytes: the NIDHeader, then the address
\* words; the port is not written
NIDToBytes(o, nid) ==
  <<nid.Size, nid.Type>> \o Enc(o, nid.NetworkIndex) \o EncFields(o, nid.Addr)

\* (variant) ToBytes writes the PayloadLength the caller stored
MessageToBytes_StoredLength(o, message) ==
  NIDToBytes(o, message.DestNID) \o NIDToBytes(o, message.SourceNID) \o
  EncFields(o, <<message.DestPID, message.SourcePID, message.MessageType,
                 message.PayloadLength>>) \o
  EncFields(o, message.LNetCommand) \o message.Payload

\* LNetMessage.ToBytes, the bytes it builds: PayloadLength is set from the payload
MessageToBytes(o, message) ==
  NIDToBytes(o, message.DestNID) \o NIDToBytes(o, message.SourceNID) \o
  EncFields(o, <<message.DestPID, message.SourcePID, message.MessageType,
                 LenWord(Len(message.Payload))>>) \o
  EncFields(o, message.LNetCommand) \o message.Payload

\* (variant) GetReply copies the NIDs and PIDs of the request without swapping
GetReply_NoSwap(message) ==
  [DestNID |-> message.DestNID, SourceNID |-> message.SourceNID,
   DestPID |-> message.DestPID, SourcePID |-> message.SourcePID,
   MessageType |-> U32(3), PayloadLength |-> Zero32,
   LNetCommand |-> <<message.LNetCommand[1], message.LNetCommand[2]>>,
   Payload |-> <<>>]

\* (variant) GetReply leaves the DestWMD of the reply zero
GetReply_ZeroWMD(message) ==
  [DestNID |-> message.SourceNID, SourceNID |-> message.DestNID,
   DestPID |-> message.SourcePID, SourcePID |-> message.DestPID,
   MessageType |-> U32(3), PayloadLength |-> Zero32,
   LNetCommand |-> <<U64(0), U64(0)>>,
   Payload |-> <<>>]

\* LNetMessage.ToBytes: a message without command is an error
ToBytes(o, message) ==
  IF message.LNetCommand = <<>>
  THEN [err |-> "cannot write LNet message with nil command", bytes |-> <<>>]
  ELSE [err |-> "", bytes |-> MessageToBytes(o, message)]

\* LNetMessage.GetReply: the REPLY to a GET
GetReply(message) ==
  [DestNID |-> message.SourceNID, SourceNID |-> message.DestNID,
   DestPID |-> message.SourcePID, SourcePID |-> message.DestPID,
   MessageType |-> LNET_MSG_REPLY, PayloadLength |-> Zero32,
   LNetCommand |-> <<message.LNetCommand[1], message.LNetCommand[2]>>,
   Payload |-> <<>>]

\* (variant) NIDFromAddr has no case for the unspecified address
NIDFromAddr_NoWildcard(byteOrder, addr, netType, netNum, portNum) ==
  LET port == IF portNum = 0 THEN DEFAULT_PORT ELSE portNum
  IN  CASE Len(addr) = 4 ->
             [err |-> "", nid |-> NID64(0, netType, netNum, Dec(byteOrder, addr), port)]
        [] Len(addr) = 16 ->
             [err |-> "",
              nid |-> ExtendedNID(12, netType, netNum,
                                  DecFields(byteOrder, <<4, 4, 4, 4>>, addr), port)]
        [] OTHER -> [err |-> "unsupported address type for NID", nid |-> NilNID]

\* NIDFromAddr: addr is the address as its 4 or 16 bytes (no bytes: the zero
\* netip.Addr); byteOrder is DEFAULT_BYTE_ORDER
NIDFromAddr(byteOrder, addr, netType, netNum, portNum) ==
  LET port == IF portNum = 0 THEN DEFAULT_PORT ELSE portNum
      size == IF Len(addr) >= 4 THEN Len(addr) - 4 ELSE 252 + Len(addr)
  IN  CASE Len(addr) \in {4, 16} /\ addr = Zeros(Len(addr)) ->
             [err |-> "", nid |-> AnyNID]
        [] Len(addr) = 4 /\ addr # Zeros(4) ->
             [err |-> "", nid |-> NID64(size, netType, netNum, Dec(byteOrder, addr), port)]
        [] Len(addr) = 16 /\ addr # Zeros(16) ->
             [err |-> "",
              nid |-> ExtendedNID(size, netType, netNum,
                                  DecFields(byteOrder, <<4, 4, 4, 4>>, addr), port)]
        [] OTHER -> [err |-> "unsupported address type for NID", nid |-> NilNID]

\* the NIDStatus records of PingResponse.ToBytes: NID bytes, status, message size
RECURSIVE NIDStatusBytes(_, _)
NIDStatusBytes(o, nids) ==
  IF nids = <<>> THEN <<>>
  ELSE NIDToBytes(o, Head(nids)) \o Enc(o, PING_NI_STATUS_UP) \o Enc(o, Zero32) \o
       NIDStatusBytes(o, Tail(nids))

\* PingResponse.ToBytes
PingResponseToBytes(o, pid, nids) ==
  EncFields(o, <<LNET_PING_MAGIC, PingFeatures, pid, LenWord(Len(nids))>>) \o
  NIDStatusBytes(o, nids)

\* the NIDs HandlePing builds from the catalog
PingNIDs(byteOrder, addrs, port) ==
  [i \in 1..Len(addrs) |-> NIDFromAddr(byteOrder, addrs[i], NETWORK_TYPE_TCP, <<0, 0>>, port)]

\* KSockMessageHeader as written: type, checksum, two zero-copy cookies
KSockHeaderBytes(o, type, checksum) ==
  EncFields(o, <<type, checksum, U64(0), U64(0)>>)

\* LNetClient.SendMessage: the KSOCK header of an LNET frame, then the message
SendMessage(o, message) ==
  KSockHeaderBytes(o, KSOCK_MSG_LNET, Zero32) \o MessageToBytes(o, message)

\* LNetMessage.SetPayload with a byte slice: the payload and its length
SetPayload(message, payload) ==
  [message EXCEPT !.Payload = payload, !.PayloadLength = LenWord(Len(payload))]

\* HandleGet and HandlePing on a decoded GET: the error, the reply message
\* HandlePing built and the bytes to send (none when the GET is no PING)
HandleGet(o, byteOrder, addrs, port, message) ==
  LET nids == PingNIDs(byteOrder, addrs, port)
      payload == PingResponseToBytes(o, message.DestPID, [i \in 1..Len(nids) |-> nids[i].nid])
      replyMessage == SetPayload(GetReply(message), payload)
  IN  IF message.LNetCommand[3] # LNET_PROTO_PING_MATCHBITS
      THEN [err |-> "", reply |-> NilMessage, send |-> <<>>]
      ELSE IF \E i \in 1..Len(nids) : nids[i].err # ""
      THEN [err |-> "error creating NID from address", reply |-> NilMessage, send |-> <<>>]
      ELSE [err |-> "", reply |-> replyMessage, send |-> SendMessage(o, replyMessage)]

\* the command registry NewLNetClient builds
Commands == {LNET_MSG_GET}

\* ------------------------------------------------------------------------
\* The frame loop (LNetClient.handleCommands)
\* ------------------------------------------------------------------------

\* (variant) handleCommands logs the error and goes on with the next frame
CommandsFailed_Continues(c, r, err, value) ==
  Becomes(c, [r EXCEPT !.pc = "ksockHeader", !.err = err, !.errValue = value])

\* handleCommands returned the error: handleConnection logs it and panics; the
\* deferred conn.Close() runs while the goroutine unwinds, then the process dies
\* (rx keeps the bytes of the frame that failed)
CommandsFailed(c, r, err, value) ==
  /\ conn' = [conn EXCEPT ![c] = [Closed(r, err, value) EXCEPT !.rx = r.rx]]
  /\ proc' = "panicked"
  /\ UNCHANGED <<DEFAULT_BYTE_ORDER, clientByteOrder, listener, cancelled, listenResult,
                 LocalAddrs, codec>>

\* (variant) the switch on the header type has no default case: a header of
\* another type is skipped like a NOOP
ReadKSockHeader_SkipsUnknown(c, inputs) ==
  /\ Running(c, "ksockHeader")
  /\ \E in \in inputs :
       /\ conn[c].frames < MaxFrames
       /\ Len(in) <= 24
       /\ LET r == conn[c]
              type == Dec(r.ByteOrder, SubSeq(in, 1, 4))
          IN  IF Len(in) < 24
              THEN CommandsFailed(c, [r EXCEPT !.rx = in], "error reading message header", <<>>)
              ELSE IF type = KSOCK_MSG_LNET
              THEN Becomes(c, [r EXCEPT !.frames = @ + 1, !.pc = "lnetMessage", !.rx = in])
              ELSE Becomes(c, [r EXCEPT !.frames = @ + 1, !.rx = in])

\* (variant) a header whose checksum is not zero ends the connection
ReadKSockHeader_ChecksumFails(c, inputs) ==
  /\ Running(c, "ksockHeader")
  /\ \E in \in inputs :
       /\ conn[c].frames < MaxFrames
       /\ Len(in) <= 24
       /\ LET r == conn[c]
              type == Dec(r.ByteOrder, SubSeq(in, 1, 4))
          IN  IF Len(in) < 24
              THEN CommandsFailed(c, [r EXCEPT !.rx = in], "error reading message header", <<>>)
              ELSE IF SubSeq(in, 5, 8) # Zero32
              THEN CommandsFailed(c, [r EXCEPT !.frames = @ + 1, !.rx = in],
                                  "checksum not supported", SubSeq(in, 5, 8))
              ELSE IF type = KSOCK_MSG_NOOP
              THEN Becomes(c, [r EXCEPT !.frames = @ + 1, !.rx = in])
              ELSE IF type = KSOCK_MSG_LNET
              THEN Becomes(c, [r EXCEPT !.frames = @ + 1, !.pc = "lnetMessage", !.rx = in])
              ELSE CommandsFailed(c, [r EXCEPT !.frames = @ + 1, !.rx = in],
                                  "unsupported message type", type)

\* handleCommands: binary.Read of the KSockMessageHeader and the switch on its type
ReadKSockHeader(c, inputs) ==
  /\ Running(c, "ksockHeader")
  /\ \E in \in inputs :
       /\ conn[c].frames < MaxFrames
       /\ Len(in) <= 24
       /\ LET r == conn[c]
              type == Dec(r.ByteOrder, SubSeq(in, 1, 4))
          IN  IF Len(in) < 24
              THEN CommandsFailed(c, [r EXCEPT !.rx = in], "error reading message header", <<>>)
              ELSE IF type = KSOCK_MSG_NOOP
              THEN Becomes(c, [r EXCEPT !.frames = @ + 1, !.rx = in])
              ELSE IF type = KSOCK_MSG_LNET
              THEN Becomes(c, [r EXCEPT !.frames = @ + 1, !.pc = "lnetMessage", !.rx = in])
              ELSE CommandsFailed(c, [r EXCEPT !.frames = @ + 1, !.rx = in],
                                  "unsupported message type", type)

\* handleCommands: ReadCommand, the lookup of the handler and its call; of the
\* Write of what the handler sends ends as w
ReadCommandAndDispatch(c, inputs, ws) ==
  /\ Running(c, "lnetMessage")
  /\ \E in \in inputs, w \in ws :
       \E res \in {ReadCommand(conn[c].ByteOrder, in)} :
         LET r == conn[c]
             read == [r EXCEPT !.rx = @ \o in, !.msg = res.message]
             called == [read EXCEPT !.calls = @ + 1,
                                    !.handled = Append(@, SubSeq(res.message.LNetCommand, 1, 3))]
         IN  /\ res.consumed = Len(in)
             /\ IF res.err # ""
                THEN CommandsFailed(c, [r EXCEPT !.rx = @ \o in], res.err, res.message.MessageType)
                ELSE IF res.message.MessageType \notin Commands
                THEN Becomes(c, [read EXCEPT !.pc = "ksockHeader"])
                ELSE \E h \in {HandleGet(r.ByteOrder, DEFAULT_BYTE_ORDER, LocalAddrs,
                                         DEFAULT_PORT, res.message)} :
                       IF h.err # ""
                       THEN CommandsFailed(c, called, h.err, <<>>)
                       ELSE IF h.send = <<>>
                       THEN Becomes(c, [called EXCEPT !.pc = "ksockHeader"])
                       ELSE IF w # "all"
                       THEN CommandsFailed(c, [called EXCEPT !.out = @ \o Written(h.send, w)],
                                           "failed to send message", <<>>)
                       ELSE Becomes(c, [called EXCEPT !.pc = "ksockHeader",
                                                         !.reply = h.reply,
                                                         !.out = @ \o h.send,
                                                         !.writes = @ + 1])

\* ------------------------------------------------------------------------
\* The peers: what a peer may send next.  `rich` selects the alphabet of the
\* single connection specification; the concurrent server specification
\* feeds each connection a smaller one.
\* ------------------------------------------------------------------------

\* the encodings of the values vals in either byte order
Words(vals) == {Enc(o, v) : o \in Orders, v \in vals}

\* a read that ends early: end of stream at once, or after one byte
Short(rich) == IF rich THEN {<<>>, <<0>>} ELSE {<<>>}

\* a NID the way ReadNID expects it on the wire: the 64 bit header word
\* (size, type, index, first address word), then the other address words
NIDWire(o, nid) ==
  Enc(o, <<nid.Size, nid.Type>> \o nid.NetworkIndex \o nid.Addr[1]) \o
  EncFields(o, Tail(nid.Addr))

\* 192.168.1.5@tcp0
PeerNID == NID64(0, NETWORK_TYPE_TCP, <<0, 0>>, <<192, 168, 1, 5>>, DEFAULT_PORT)

\* 10.0.0.9@tcp0
ServerNID == NID64(0, NETWORK_TYPE_TCP, <<0, 0>>, <<10, 0, 0, 9>>, DEFAULT_PORT)

\* fd00::5@tcp0
PeerENID ==
  ExtendedNID(12, NETWORK_TYPE_TCP, <<0, 0>>,
              <<<<253, 0, 0, 0>>, Zero32, Zero32, <<0, 0, 0, 5>>>>, DEFAULT_PORT)

\* a compact header of the reserved size 2 (IPv4 with port)
PortNID == NID64(2, NETWORK_TYPE_TCP, <<0, 0>>, <<192, 168, 1, 5>>, DEFAULT_PORT)

AcceptorMagicInputs(rich) ==
  Words(IF rich THEN {PROTO_MAGIC_ACCEPTOR, PROTO_MAGIC_GENERIC, PROTO_MAGIC_TCP}
        ELSE {PROTO_MAGIC_ACCEPTOR})
  \cup Short(rich)

AcceptorVersionInputs(rich) ==
  Words(IF rich THEN {U32(1), U32(2), U32(3)} ELSE {U32(1)}) \cup Short(rich)

SourceNIDInputs(rich) ==
  {NIDWire(o, n) : o \in Orders,
                   n \in IF rich THEN {PeerNID, PeerENID, AnyNID, PortNID} ELSE {PeerNID}}
  \cup (IF rich THEN {SubSeq(NIDWire(o, PeerENID), 1, 8) : o \in Orders} ELSE {})
  \cup Short(rich)

ProtocolMagicInputs(rich) ==
  Words(IF rich THEN {PROTO_MAGIC_GENERIC, PROTO_MAGIC_TCP, PROTO_MAGIC_ACCEPTOR}
        ELSE {PROTO_MAGIC_TCP})
  \cup Short(rich)

ProtocolVersionInputs(rich) ==
  Words(IF rich THEN {U32(1), U32(2), U32(3), U32(4)} ELSE {U32(3)}) \cup Short(rich)

PeerRaw64 == <<0, 2, 0, 0, 192, 168, 1, 5>>

ServerRaw64 == <<0, 2, 0, 0, 10, 0, 0, 9>>

PeerRawENid ==
  [Size |-> 12, Type |-> NETWORK_TYPE_TCP, NetworkIndex |-> <<0, 0>>,
   Addr |-> <<<<253, 0, 0, 0>>, Zero32, Zero32, <<0, 0, 0, 5>>>>]

ServerRawENid ==
  [Size |-> 12, Type |-> NETWORK_TYPE_TCP, NetworkIndex |-> <<0, 0>>,
   Addr |-> <<<<253, 0, 0, 0>>, Zero32, Zero32, <<0, 0, 0, 9>>>>]

\* the raw NIDs of a HELLO: source and destination are drawn from the same set
HelloNIDInputs(rich) ==
  (IF rich
   THEN Words({PeerRaw64, ServerRaw64})
        \cup {EncRawExtendedNID(o, n) : o \in Orders, n \in {PeerRawENid, ServerRawENid}}
   ELSE {PeerRaw64})
  \cup Short(rich)

PID_LUSTRE == <<0, 0, 48, 57>>

PID_GLIMMER == <<0, 0, 212, 49>>

\* the tail of the HELLO of a Lustre peer opening a bulk-in connection
BulkInTail ==
  [SourcePID |-> PID_LUSTRE, DestPID |-> PID_GLIMMER,
   SourceIncarnation |-> U64(173), DestIncarnation |-> U64(0),
   ConnType |-> U32(2), NIPs |-> Zero32]

ControlTail ==
  [SourcePID |-> PID_GLIMMER, DestPID |-> PID_LUSTRE,
   SourceIncarnation |-> U64(1), DestIncarnation |-> U64(7),
   ConnType |-> U32(1), NIPs |-> Zero32]

IPsTail == [BulkInTail EXCEPT !.NIPs = U32(1)]

CommonTailInputs(rich) ==
  (IF rich
   THEN {EncCommonTail(o, t) : o \in Orders, t \in {BulkInTail, ControlTail, IPsTail}}
   ELSE {EncCommonTail("BE", BulkInTail)})
  \cup Short(rich)

\* values rand.Uint64() may return
RandValues(rich) == IF rich THEN {U64(0), <<1, 2, 3, 4, 5, 6, 7, 8>>} ELSE {U64(9)}

KSockHeaderInputs(rich) ==
  {KSockHeaderBytes(o, t, ck) : o \in Orders,
                                t \in {KSOCK_MSG_NOOP, KSOCK_MSG_LNET, U32(194)},
                                ck \in IF rich THEN {Zero32, U32(1)} ELSE {Zero32}}
  \cup Short(rich)

\* KSockMessageHeader as a peer may send it: type, checksum, zero-copy cookies
KSockHeaderWire(o, type, checksum, cookie1, cookie2) ==
  EncFields(o, <<type, checksum, cookie1, cookie2>>)

\* headers of NOOP and LNET frames that differ in the checksum and the cookies
\* only, in either byte order, and a stream that ends
PairHeaderInputs ==
  {KSockHeaderWire(o, t, f[1], f[2], f[3]) :
     o \in Orders, t \in {KSOCK_MSG_NOOP, KSOCK_MSG_LNET},
     f \in {<<Zero32, U64(0), U64(0)>>, <<U32(1), U64(0), U64(0)>>,
            <<Zero32, U64(5), U64(6)>>}}
  \cup Short(FALSE)

\* an LNet message as a peer sends it: NIDs, header, command body, payload
MessageWire(o, dest, source, type, length, body, payload) ==
  NIDWire(o, dest) \o NIDWire(o, source) \o
  EncFields(o, <<PID_LUSTRE, PID_GLIMMER, type, length>>) \o EncFields(o, body) \o payload

\* a GET whose match bits mark a PING
PingBody == <<U64(17), U64(34), LNET_PROTO_PING_MATCHBITS, Zero32, Zero32, Zero32>>

GetBody == <<U64(17), U64(34), U64(5), U32(1), Zero32, Zero32>>

PutBody == <<U64(17), U64(34), U64(5), U64(6), Zero32, Zero32>>

\* a second PING, with another ReturnWMD and a portal index that is not 0
PingBody2 == <<U64(51), U64(68), LNET_PROTO_PING_MATCHBITS, U32(1), Zero32, Zero32>>

AckBody == <<U64(17), U64(34), U64(5), U32(2)>>

ReplyBody == <<U64(17), U64(34)>>

HelloBody == <<U64(173), U32(1)>>

MessageInputs(rich) ==
  {MessageWire(o, ServerNID, PeerNID, LNET_MSG_GET, Zero32, PingBody, <<>>) : o \in Orders}
  \cup {MessageWire(o, ServerNID, PeerNID, U32(99), Zero32, <<>>, <<>>) : o \in Orders}
  \cup (IF rich
        THEN {MessageWire(o, ServerNID, PeerNID, LNET_MSG_GET, Zero32, b, <<>>) :
                o \in Orders, b \in {GetBody, PingBody2}}
             \cup {MessageWire(o, ServerNID, PeerNID, LNET_MSG_PUT, U32(2), PutBody, p) :
                     o \in Orders, p \in {<<>>, <<7>>, <<7, 8>>}}
             \cup {MessageWire(o, ServerNID, PeerNID, LNET_MSG_ACK, Zero32, AckBody, <<>>) :
                     o \in Orders}
             \cup {MessageWire(o, ServerNID, PeerNID, LNET_MSG_REPLY, Zero32, ReplyBody, <<>>) :
                     o \in Orders}
             \cup {MessageWire(o, ServerNID, PeerNID, LNET_MSG_HELLO, Zero32, HelloBody, <<>>) :
                     o \in Orders}
             \cup {MessageWire(o, ServerNID, PeerNID, U32(99), Zero32, HelloBody, <<>>) :
                     o \in Orders}
        ELSE {})
  \cup Short(rich)

\* catalogs of local addresses: one IPv4 address; an IPv4 and an IPv6 address;
\* one holding the zero netip.Addr; the empty catalog NewLNetClient leaves; one
\* that begins with the unspecified address 0.0.0.0
Catalogs(rich) ==
  IF rich
  THEN {<<<<10, 0, 0, 9>>, <<253, 0, 0, 0, 0, 0, 0, 0, 0, 0, 0, 0, 0, 0, 0, 9>>>>,
        <<<<>>>>,
        <<>>,
        <<<<0, 0, 0, 0>>, <<10, 0, 0, 9>>>>}
  ELSE {<<<<10, 0, 0, 9>>>>}

\* ------------------------------------------------------------------------
\* NID strings (netid.go): ParseNID and String.  A string is kept as its
\* parts: either a text that is no "addr@net" form (text # ""), or the address
\* as the bytes its notation stands for (netip.ParseAddr and Addr.String are
\* inverse on them), the letters of the network, the decimal number that
\* follows them and the port behind '#' (<<>> when there is none)
\* ------------------------------------------------------------------------

Text(text) == [text |-> text, addr |-> <<>>, net |-> "", index |-> 0, port |-> <<>>]

NIDText(addr, net, index, port) ==
  [text |-> "", addr |-> addr, net |-> net, index |-> index, port |-> port]

\* strings.ToLower on the network letters fed here
ToLower(s) ==
  CASE s = "TCP" -> "tcp"
    [] s = "O2ib" -> "o2ib"
    [] s = "Lo" -> "lo"
    [] OTHER -> s

\* NetworkTypeFromString
NetworkTypeFromString(s) ==
  CASE ToLower(s) = "tcp" -> [err |-> "", type |-> NETWORK_TYPE_TCP]
    [] ToLower(s) = "o2ib" -> [err |-> "", type |-> NETWORK_TYPE_O2IB]
    [] ToLower(s) = "lo" -> [err |-> "", type |-> NETWORK_TYPE_LO]
    [] OTHER -> [err |-> "unsupported network type", type |-> 0]

\* n as a uint16
U16(n) == <<n \div 256, n % 256>>

\* the largest number of 5 decimal digits, what the port group of ValidNIDExpr admits
MaxPortDigits == 99999

\* (variant) ParseNID converts the index with uint16() without ParseUint's
\* range check
ParseNID_WrapsIndex(byteOrder, s) ==
  IF s.text \in {"any", "*"} THEN [err |-> "", nid |-> AnyNID]
  ELSE IF s.text # "" \/ Len(s.net) < 2 \/ (s.port # <<>> /\ s.port[1] > MaxPortDigits)
  THEN [err |-> "invalid NID format", nid |-> NilNID]
  ELSE IF NetworkTypeFromString(s.net).err # ""
  THEN [err |-> "invalid network type in NID", nid |-> NilNID]
  ELSE IF s.port # <<>> /\ s.port[1] > 65535
  THEN [err |-> "invalid port number in NID", nid |-> NilNID]
  ELSE IF Len(s.addr) \notin {4, 16}
  THEN [err |-> "invalid address in NID", nid |-> NilNID]
  ELSE LET res == NIDFromAddr(byteOrder, s.addr, NetworkTypeFromString(s.net).type,
                              U16(s.index % 65536),
                              IF s.port = <<>> THEN DEFAULT_PORT ELSE s.port[1])
       IN  [err |-> res.err, nid |-> res.nid]

\* ParseNID, on a host whose DEFAULT_BYTE_ORDER is byteOrder
ParseNID(byteOrder, s) ==
  IF s.text \in {"any", "*"} THEN [err |-> "", nid |-> AnyNID]
  ELSE IF s.text # "" \/ Len(s.net) < 2 \/ (s.port # <<>> /\ s.port[1] > MaxPortDigits)
  THEN [err |-> "invalid NID format", nid |-> NilNID]
  ELSE IF NetworkTypeFromString(s.net).err # ""
  THEN [err |-> "invalid network type in NID", nid |-> NilNID]
  ELSE IF s.index > 65535
  THEN [err |-> "invalid network number in NID", nid |-> NilNID]
  ELSE IF s.port # <<>> /\ s.port[1] > 65535
  THEN [err |-> "invalid port number in NID", nid |-> NilNID]
  ELSE IF Len(s.addr) \notin {4, 16}
  THEN [err |-> "invalid address in NID", nid |-> NilNID]
  ELSE LET res == NIDFromAddr(byteOrder, s.addr, NetworkTypeFromString(s.net).type,
                              U16(s.index),
                              IF s.port = <<>> THEN DEFAULT_PORT ELSE s.port[1])
       IN  [err |-> res.err, nid |-> res.nid]

\* NID64.String and ExtendedNID.String: "<NetAddr>@<type><index>#<port>"; the
\* call panics when NetAddr does
String(nid) ==
  IF NetAddr(nid).panic
  THEN [panic |-> TRUE, s |-> Text("")]
  ELSE [panic |-> FALSE,
        s |-> NIDText(NetAddr(nid).addr, NetworkTypeString(nid.Type),
                      IndexValue(nid.NetworkIndex), <<nid.Port>>)]

\* a step of a caller of pure functions: nothing else changes
CodecBecomes(r) ==
  /\ codec' = r
  /\ UNCHANGED <<DEFAULT_BYTE_ORDER, clientByteOrder, proc, listener, cancelled, listenResult,
                 LocalAddrs, conn>>

\* the strings a caller parses
NIDStrings ==
  {Text(t) : t \in {"any", "*", "localhost"}}
  \cup {NIDText(a, n, i, p) :
          a \in {<<192, 168, 1, 5>>, <<1, 2, 2, 1>>, <<0, 0, 0, 0>>, <<1, 2, 3>>,
                 <<253, 0, 0, 0, 0, 0, 0, 0, 0, 0, 0, 0, 0, 0, 0, 9>>},
          n \in {"tcp", "o2ib", "lo", "TCP", "gni", "x"},
          i \in {0, 7, 65535, 65536},
          p \in {<<>>, <<988>>, <<7000>>, <<65536>>, <<100000>>}}

\* the caller of ParseNID and String starts with a string
NIDTextInputs ==
  [pc : {"text"}, str : NIDStrings, parsed : {[err |-> "", nid |-> NilNID]},
   printed : {[panic |-> FALSE, s |-> Text("")]}, reparsed : {[err |-> "", nid |-> NilNID]}]

\* nid, err := ParseNID(str)
TextParseNID ==
  /\ codec.pc = "text"
  /\ \E res \in {ParseNID(DEFAULT_BYTE_ORDER, codec.str)} :
       CodecBecomes([codec EXCEPT !.pc = IF res.err = "" THEN "parsed" ELSE "rejected",
                                  !.parsed = res])

\* nid.String()
TextString ==
  /\ codec.pc = "parsed"
  /\ \E res \in {String(codec.parsed.nid)} :
       CodecBecomes([codec EXCEPT !.pc = IF res.panic THEN "panicked" ELSE "printed",
                                  !.printed = res])

\* ParseNID(nid.String())
TextParseAgain ==
  /\ codec.pc = "printed"
  /\ CodecBecomes([codec EXCEPT !.pc = "reparsed",
                                !.reparsed = ParseNID(DEFAULT_BYTE_ORDER, codec.printed.s)])

\* ------------------------------------------------------------------------
\* A caller of the codec functions: NIDFromAddr, NID.ToBytes, ReadNID,
\* LNetMessage.ToBytes and ReadCommand on a stream that holds the bytes written
\* ------------------------------------------------------------------------

\* addresses as netip.Addr: IPv4, IPv6, the unspecified addresses, the zero Addr
CodecAddrs ==
  {<<192, 168, 1, 5>>, <<10, 0, 0, 9>>,
   <<253, 0, 0, 0, 0, 0, 0, 0, 0, 0, 0, 0, 0, 0, 0, 9>>,
   <<0, 0, 0, 0>>, <<0, 0, 0, 0, 0, 0, 0, 0, 0, 0, 0, 0, 0, 0, 0, 0>>, <<>>}

\* a command body of each type
CodecBody(type) ==
  CASE type = LNET_MSG_ACK -> AckBody
    [] type = LNET_MSG_PUT -> PutBody
    [] type = LNET_MSG_GET -> GetBody
    [] type = LNET_MSG_REPLY -> ReplyBody
    [] type = LNET_MSG_HELLO -> HelloBody

\* the arguments the caller starts with
CodecInputs ==
  [pc : {"start"}, order : Orders, addr : CodecAddrs, netNum : {<<0, 0>>, <<0, 1>>},
   portNum : {0, 7000}, type : {LNET_MSG_ACK, LNET_MSG_PUT, LNET_MSG_GET, LNET_MSG_REPLY,
                          LNET_MSG_HELLO},
   nilCommand : BOOLEAN, payload : {<<>>, <<7>>, <<7, 8>>}, stored : {Zero32, U32(5)},
   err : {""}, nid : {NilNID}, nidBytes : {<<>>}, nidBack : {NoCodec.nidBack},
   nid64 : {NilNID},
   message : {NilMessage}, bytes : {<<>>}, back : {NoCodec.back}]

\* nid, err := NIDFromAddr(addr, NETWORK_TYPE_TCP, netNum, portNum)
CodecNIDFromAddr ==
  /\ codec.pc = "start"
  /\ \E res \in {NIDFromAddr(DEFAULT_BYTE_ORDER, codec.addr, NETWORK_TYPE_TCP, codec.netNum,
                              codec.portNum)} :
       CodecBecomes([codec EXCEPT !.pc = IF res.err = "" THEN "nid" ELSE "failed",
                                  !.err = res.err, !.nid = res.nid])

\* data, _ := nid.ToBytes(order)
CodecNIDToBytes ==
  /\ codec.pc = "nid"
  /\ CodecBecomes([codec EXCEPT !.pc = "nidBytes",
                                !.nidBytes = NIDToBytes(codec.order, codec.nid)])

\* ReadNID(bytes.NewReader(data), order, 0)
CodecReadNID ==
  /\ codec.pc = "nidBytes"
  /\ CodecBecomes([codec EXCEPT !.pc = "nidRead",
                                !.nidBack = ReadNID(codec.order, codec.nidBytes)])

\* RawNID64(order.Uint64(data)).ToNID64()
CodecToNID64 ==
  /\ codec.pc = "nidRead"
  /\ CodecBecomes([codec EXCEPT !.pc = "nid64",
                                !.nid64 = ToNID64(Dec(codec.order, SubSeq(codec.nidBytes, 1, 8)))])

\* the caller builds a message to the NID, with the PayloadLength it chose, and
\* calls message.ToBytes(order)
CodecToBytes ==
  /\ codec.pc = "nid64"
  /\ \E m \in {[DestNID |-> codec.nid,
                  SourceNID |-> NIDFromAddr(DEFAULT_BYTE_ORDER, <<10, 0, 0, 9>>,
                                            NETWORK_TYPE_TCP, <<0, 0>>, 0).nid,
                  DestPID |-> PID_LUSTRE, SourcePID |-> PID_GLIMMER,
                  MessageType |-> codec.type, PayloadLength |-> codec.stored,
                  LNetCommand |-> IF codec.nilCommand THEN <<>> ELSE CodecBody(codec.type),
                  Payload |-> codec.payload]} :
       \E res \in {ToBytes(codec.order, m)} :
         CodecBecomes([codec EXCEPT !.pc = IF res.err = "" THEN "msgBytes" ELSE "failed",
                                    !.err = res.err, !.message = m, !.bytes = res.bytes])

\* ReadCommand on a connection whose stream holds the bytes of the message
CodecReadCommand ==
  /\ codec.pc = "msgBytes"
  /\ CodecBecomes([codec EXCEPT !.pc = "msgRead",
                                !.back = ReadCommand(codec.order, codec.bytes)])

\* ------------------------------------------------------------------------
\* Specifications
\* ------------------------------------------------------------------------

\* what the peers of the concurrent server may send, per read
ServerInputs ==
  [AcceptorMagicInputs |-> AcceptorMagicInputs(FALSE),
   AcceptorVersionInputs |-> AcceptorVersionInputs(FALSE),
   SourceNIDInputs |-> SourceNIDInputs(FALSE),
   ProtocolMagicInputs |-> ProtocolMagicInputs(FALSE),
   ProtocolVersionInputs |-> ProtocolVersionInputs(FALSE),
   HelloNIDInputs |-> HelloNIDInputs(FALSE),
   CommonTailInputs |-> CommonTailInputs(FALSE),
   RandValues |-> RandValues(FALSE),
   KSockHeaderInputs |-> KSockHeaderInputs(FALSE),
   MessageInputs |-> MessageInputs(FALSE),
   WriteOutcomes |-> WriteOutcomes(FALSE),
   Catalogs |-> Catalogs(FALSE)]

\* what the peer of the single connection may send, per read
ConnInputs ==
  [AcceptorMagicInputs |-> AcceptorMagicInputs(TRUE),
   AcceptorVersionInputs |-> AcceptorVersionInputs(TRUE),
   SourceNIDInputs |-> SourceNIDInputs(TRUE),
   ProtocolMagicInputs |-> ProtocolMagicInputs(TRUE),
   ProtocolVersionInputs |-> ProtocolVersionInputs(TRUE),
   HelloNIDInputs |-> HelloNIDInputs(TRUE),
   CommonTailInputs |-> CommonTailInputs(TRUE),
   RandValues |-> RandValues(TRUE),
   KSockHeaderInputs |-> KSockHeaderInputs(TRUE),
   MessageInputs |-> MessageInputs(TRUE),
   WriteOutcomes |-> WriteOutcomes(TRUE),
   Catalogs |-> Catalogs(TRUE)]

\* the server: the listener and MaxConns concurrent connections
Init == InitWith(Conns, ServerInputs.Catalogs)

Next ==
  \/ \E c \in Conns : Accept(c)
  \/ Cancel
  \/ AfterFuncCloseListener
  \/ \E failed \in BOOLEAN : AcceptError(failed)
  \/ \E c \in Conns : ReadAcceptorMagic(c, ServerInputs.AcceptorMagicInputs)
  \/ \E c \in Conns : ReadAcceptorVersion(c, ServerInputs.AcceptorVersionInputs)
  \/ \E c \in Conns : ReadSourceNID(c, ServerInputs.SourceNIDInputs)
  \/ \E c \in Conns : ReadProtocolMagic(c, ServerInputs.ProtocolMagicInputs)
  \/ \E c \in Conns : ReadProtocolVersion(c, ServerInputs.ProtocolVersionInputs)
  \/ \E c \in Conns : ReadHelloSource(c, ServerInputs.HelloNIDInputs)
  \/ \E c \in Conns : ReadHelloDest(c, ServerInputs.HelloNIDInputs)
  \/ \E c \in Conns : ReadCommonTailAndReply(c, ServerInputs.CommonTailInputs,
                                              ServerInputs.RandValues,
                                              ServerInputs.WriteOutcomes)
  \/ \E c \in Conns : StartCommands(c)
  \/ \E c \in Conns : ReadKSockHeader(c, ServerInputs.KSockHeaderInputs)
  \/ \E c \in Conns : ReadCommandAndDispatch(c, ServerInputs.MessageInputs,
                                              ServerInputs.WriteOutcomes)

Spec == Init /\ [][Next]_vars

\* the server under the scheduling of the Go runtime: the goroutine of
\* context.AfterFunc runs once the context is cancelled, and Accept on the
\* closed socket returns its error; no peer is obliged to send or to close
SpecLive ==
  /\ Init
  /\ [][Next]_vars
  /\ WF_vars(AfterFuncCloseListener)
  /\ WF_vars(AcceptError(FALSE))

\* one connection, fed the whole alphabet
InitConn == InitWith({1}, ConnInputs.Catalogs)

NextConn ==
  \/ Accept(1)
  \/ ReadAcceptorMagic(1, ConnInputs.AcceptorMagicInputs)
  \/ ReadAcceptorVersion(1, ConnInputs.AcceptorVersionInputs)
  \/ ReadSourceNID(1, ConnInputs.SourceNIDInputs)
  \/ ReadProtocolMagic(1, ConnInputs.ProtocolMagicInputs)
  \/ ReadProtocolVersion(1, ConnInputs.ProtocolVersionInputs)
  \/ ReadHelloSource(1, ConnInputs.HelloNIDInputs)
  \/ ReadHelloDest(1, ConnInputs.HelloNIDInputs)
  \/ ReadCommonTailAndReply(1, ConnInputs.CommonTailInputs, ConnInputs.RandValues,
                            ConnInputs.WriteOutcomes)
  \/ StartCommands(1)
  \/ ReadKSockHeader(1, ConnInputs.KSockHeaderInputs)
  \/ ReadCommandAndDispatch(1, ConnInputs.MessageInputs, ConnInputs.WriteOutcomes)

SpecConn == InitConn /\ [][NextConn]_vars

\* two connections whose peers send in the byte order of the server and send
\* one frame each, with any checksum and any zero-copy cookies in its header
NextPair ==
  \/ \E c \in Conns : Accept(c)
  \/ \E c \in Conns : ReadAcceptorMagic(c, {Enc(DEFAULT_BYTE_ORDER, PROTO_MAGIC_ACCEPTOR)})
  \/ \E c \in Conns : ReadAcceptorVersion(c, ServerInputs.AcceptorVersionInputs)
  \/ \E c \in Conns : ReadSourceNID(c, ServerInputs.SourceNIDInputs)
  \/ \E c \in Conns : ReadProtocolMagic(c, ServerInputs.ProtocolMagicInputs)
  \/ \E c \in Conns : ReadProtocolVersion(c, ServerInputs.ProtocolVersionInputs)
  \/ \E c \in Conns : ReadHelloSource(c, ServerInputs.HelloNIDInputs)
  \/ \E c \in Conns : ReadHelloDest(c, ServerInputs.HelloNIDInputs)
  \/ \E c \in Conns : ReadCommonTailAndReply(c, ServerInputs.CommonTailInputs,
                                              ServerInputs.RandValues,
                                              ServerInputs.WriteOutcomes)
  \/ \E c \in Conns : StartCommands(c)
  \/ \E c \in Conns : conn[c].frames = 0 /\ ReadKSockHeader(c, PairHeaderInputs)
  \/ \E c \in Conns : ReadCommandAndDispatch(c, ServerInputs.MessageInputs,
                                              ServerInputs.WriteOutcomes)

SpecPair == Init /\ [][NextPair]_vars

\* ------------------------------------------------------------------------
\* Byte swapping (Swab16, Swab32, Swab64)
\* ------------------------------------------------------------------------

\* a uintNN is the tuple of its bytes, most significant first; the operators
\* of Go on it, for shift counts that are whole bytes: x >> bits, x << bits
\* (the bits shifted out of the width are lost), x & m, x | y
WordShr(x, bits) ==
  [i \in 1..Len(x) |-> IF i <= bits \div 8 THEN 0 ELSE x[i - bits \div 8]]

WordShl(x, bits) ==
  [i \in 1..Len(x) |-> IF i + bits \div 8 <= Len(x) THEN x[i + bits \div 8] ELSE 0]

RECURSIVE BitAnd(_, _)
BitAnd(a, b) ==
  IF a = 0 \/ b = 0 THEN 0
  ELSE (a % 2) * (b % 2) + 2 * BitAnd(a \div 2, b \div 2)

RECURSIVE BitOr(_, _)
BitOr(a, b) ==
  IF a = 0 THEN b
  ELSE IF b = 0 THEN a
  ELSE (IF a % 2 = 1 \/ b % 2 = 1 THEN 1 ELSE 0) + 2 * BitOr(a \div 2, b \div 2)

WordAnd(x, m) == [i \in 1..Len(x) |-> BitAnd(x[i], m[i])]

WordOr(x, y) == [i \in 1..Len(x) |-> BitOr(x[i], y[i])]

\* (variant) Swab32 without its masks
Swab32_Unmasked(x) ==
  WordOr(WordOr(WordOr(WordShr(x, 24), WordShr(x, 8)), WordShl(x, 8)), WordShl(x, 24))

Swab32(x) ==
  WordOr(WordOr(WordOr(WordAnd(WordShr(x, 24), <<0, 0, 0, 255>>),
                       WordAnd(WordShr(x, 8), <<0, 0, 255, 0>>)),
                WordAnd(WordShl(x, 8), <<0, 255, 0, 0>>)),
         WordAnd(WordShl(x, 24), <<255, 0, 0, 0>>))

Swab16(x) == WordOr(WordShr(x, 8), WordShl(x, 8))

Swab64(x) ==
  WordOr(WordOr(WordOr(WordOr(WordOr(WordOr(WordOr(
    WordAnd(WordShr(x, 56), <<0, 0, 0, 0, 0, 0, 0, 255>>),
    WordAnd(WordShr(x, 40), <<0, 0, 0, 0, 0, 0, 255, 0>>)),
    WordAnd(WordShr(x, 24), <<0, 0, 0, 0, 0, 255, 0, 0>>)),
    WordAnd(WordShr(x, 8), <<0, 0, 0, 0, 255, 0, 0, 0>>)),
    WordAnd(WordShl(x, 8), <<0, 0, 0, 255, 0, 0, 0, 0>>)),
    WordAnd(WordShl(x, 24), <<0, 0, 255, 0, 0, 0, 0, 0>>)),
    WordAnd(WordShl(x, 40), <<0, 255, 0, 0, 0, 0, 0, 0>>)),
    WordAnd(WordShl(x, 56), <<255, 0, 0, 0, 0, 0, 0, 0>>))

\* the Swab function of the width of x
Swab(x) ==
  IF Len(x) = 2 THEN Swab16(x) ELSE IF Len(x) = 4 THEN Swab32(x) ELSE Swab64(x)

\* the words a caller swaps: 16 bit words of five byte values, 32 bit words
\* of four, and the 64 bit words of the bytes 0 and 0xFF with the value of
\* TestSwab64, 0x1122334455667788, and the protocol magics
SwabWords ==
  {<<a, b>> : a \in {0, 1, 128, 171, 255}, b \in {0, 1, 128, 171, 255}}
  \cup {<<a, b, c, d>> : a \in {0, 17, 34, 255}, b \in {0, 17, 34, 255},
                         c \in {0, 17, 34, 255}, d \in {0, 17, 34, 255}}
  \cup [1..8 -> {0, 255}]
  \cup {<<17, 34, 51, 68, 85, 102, 119, 136>>}
  \cup {PROTO_MAGIC_ACCEPTOR, PROTO_MAGIC_ACCEPTOR_REV, PROTO_MAGIC_GENERIC,
        PROTO_MAGIC_TCP}

SwabInputs == {[pc |-> "word", x |-> x, y |-> <<>>, back |-> <<>>] : x \in SwabWords}

\* a caller swaps a word
CodecSwab ==
  /\ codec.pc = "word"
  /\ CodecBecomes([codec EXCEPT !.pc = "swabbed", !.y = Swab(codec.x)])

\* and swaps the result
CodecSwabAgain ==
  /\ codec.pc = "swabbed"
  /\ CodecBecomes([codec EXCEPT !.pc = "swabbedBack", !.back = Swab(codec.y)])

\* ------------------------------------------------------------------------
\* Byte order classification (IsLittleEndian, IsBigEndian, GetOppositeByteOrder)
\* ------------------------------------------------------------------------

\* the orders a caller classifies on a host: the two explicit orders and the
\* native order of the host
OrderInputs ==
  UNION {{[pc |-> "order", native |-> n, o |-> o, little |-> FALSE, big |-> FALSE,
           opposite |-> "", twice |-> ""] : o \in Orders \cup {n}} : n \in NativeOrders}

\* a caller classifies an order and flips it twice
CodecClassify ==
  /\ codec.pc = "order"
  /\ CodecBecomes([codec EXCEPT
         !.pc = "classified",
         !.little = IsLittleEndian(codec.o),
         !.big = IsBigEndian(codec.o),
         !.opposite = GetOppositeByteOrder(codec.o),
         !.twice = GetOppositeByteOrder(GetOppositeByteOrder(codec.o))])

\* ------------------------------------------------------------------------
\* Network type names (NetworkType.String, NetworkTypeFromString)
\* ------------------------------------------------------------------------

\* a caller starts with a network type (the four variants, NETWORK_TYPE_INVALID
\* and the unassigned 7), or with a name no variant prints (type -1)
RejectedResult == [err |-> "", type |-> 0]

NetworkTypeInputs ==
  {[pc |-> "netType", t |-> t, name |-> "", back |-> RejectedResult] :
     t \in {0, NETWORK_TYPE_TCP, NETWORK_TYPE_O2IB, 7, NETWORK_TYPE_LO, NETWORK_TYPE_ANY}}
  \cup {[pc |-> "named", t |-> -1, name |-> n, back |-> RejectedResult] :
          n \in {"gni", "x", "", "TCP"}}

\* netType.String()
CodecTypeString ==
  /\ codec.pc = "netType"
  /\ CodecBecomes([codec EXCEPT !.pc = "named", !.name = NetworkTypeString(codec.t)])

\* NetworkTypeFromString(name)
CodecTypeFromString ==
  /\ codec.pc = "named"
  /\ CodecBecomes([codec EXCEPT !.pc = "typed", !.back = NetworkTypeFromString(codec.name)])

\* ------------------------------------------------------------------------
\* ReadNID on the bytes of a stream
\* ------------------------------------------------------------------------

\* what a stream holds when ReadNID is called in order o: a 64 bit header of
\* every size the switch names, of size 5 and of size 0xFF, of types TCP, O2IB
\* and ANY, followed by nothing, one word, three words or three words and a
\* byte; and streams that end inside the header
WireNIDs(o) ==
  {Enc(o, <<size, type, 0, 7, 192, 168, 1, 5>>) \o rest :
     size \in {0, 2, 5, 12, 14, 255},
     type \in {NETWORK_TYPE_TCP, NETWORK_TYPE_O2IB, NETWORK_TYPE_ANY},
     rest \in {<<>>, <<1, 2, 3, 4>>, <<1, 2, 3, 4, 5, 6, 7, 8, 9, 10, 11, 12>>,
               <<1, 2, 3, 4, 5, 6, 7, 8, 9, 10, 11, 12, 13>>}}
  \cup {SubSeq(Enc(o, <<size, NETWORK_TYPE_ANY, 0, 7, 192, 168, 1, 5>>), 1, n) :
          size \in {0, 255}, n \in {0, 4, 7}}
  \cup {<<size, NETWORK_TYPE_ANY, 0, 7>> : size \in {0, 255}}

WireNIDInputs ==
  UNION {{[pc |-> "wire", order |-> o, in |-> in,
           res |-> [err |-> "", nid |-> NilNID, consumed |-> 0], nid64 |-> NilNID] :
            in \in WireNIDs(o)} : o \in Orders}

\* a caller reads a NID from the stream, and converts the header word with
\* RawNID64.ToNID64 when the stream holds one
CodecReadWire ==
  /\ codec.pc = "wire"
  /\ CodecBecomes([codec EXCEPT
         !.pc = "wireRead",
         !.res = ReadNID(codec.order, codec.in),
         !.nid64 = IF Len(codec.in) >= 8
                   THEN ToNID64(Dec(codec.order, SubSeq(codec.in, 1, 8)))
                   ELSE NilNID])

\* the pure functions, applied to arguments drawn from bounded sets
InitCodec ==
  /\ DEFAULT_BYTE_ORDER \in {init(native) : native \in NativeOrders}
  /\ clientByteOrder = DEFAULT_BYTE_ORDER
  /\ proc = initCommands
  /\ listener = "listening"
  /\ cancelled = FALSE
  /\ listenResult = ""
  /\ LocalAddrs = <<>>
  /\ conn = <<>>
  /\ codec \in CodecInputs \cup NIDTextInputs \cup SwabInputs \cup OrderInputs
               \cup NetworkTypeInputs \cup WireNIDInputs
  /\ codec.pc = "order" => DEFAULT_BYTE_ORDER = init(codec.native)

NextCodec ==
  \/ CodecNIDFromAddr
  \/ CodecNIDToBytes
  \/ CodecReadNID
  \/ CodecToNID64
  \/ CodecToBytes
  \/ CodecReadCommand
  \/ TextParseNID
  \/ TextString
  \/ TextParseAgain
  \/ CodecSwab
  \/ CodecSwabAgain
  \/ CodecClassify
  \/ CodecTypeString
  \/ CodecTypeFromString
  \/ CodecReadWire

SpecCodec == InitCodec /\ [][NextCodec]_vars

\* ------------------------------------------------------------------------
\* Properties
\* ------------------------------------------------------------------------

IsPrefix(s, t) == Len(s) <= Len(t) /\ s = SubSeq(t, 1, Len(s))

AllPhases == <<"acceptor", "hello", "frames">>

\* the frame loop of connection c ended with an error
FrameLoopFailed(c) ==
  conn[c].pc = "closed" /\ conn[c].err # "" /\ conn[c].phases = AllPhases

\* the handshake of connection c ended with an error
HandshakeFailed(c) ==
  conn[c].pc = "closed" /\ conn[c].err # "" /\ conn[c].phases # AllPhases

\* C1: a failure in the frame loop of one connection only ends that
\* connection; the process keeps running, the other connections keep being
\* served and the listener keeps accepting.
C1_FrameLoopFailureIsLocal ==
  \A c \in DOMAIN conn : FrameLoopFailed(c) => proc = "running"

\* C2: on every connection the acceptor exchange comes first, then the HELLO
\* exchange, then the frame loop; a KSOCK header is read and a handler is
\* called only on a connection whose two handshake phases both succeeded
\* (its peer identity is stored, its protocol is TCP, its HELLO reply is
\* written).
C2_HandshakeBeforeFrames ==
  \A c \in DOMAIN conn :
    LET r == conn[c]
    IN  /\ IsPrefix(r.phases, AllPhases)
        /\ r.pc \in {"acceptorMagic", "acceptorVersion", "acceptorNID"} => r.phases = <<>>
        /\ r.pc \in {"protocolMagic", "protocolVersion", "helloSource", "helloDest",
                     "commonTail"} => r.phases = <<"acceptor">>
        /\ r.pc = "negotiated" => r.phases = <<"acceptor", "hello">>
        /\ r.frames > 0 => r.pc \in FramePCs
        /\ r.pc \in FramePCs =>
             /\ r.phases = AllPhases
             /\ r.NID # NilNID
             /\ r.Protocol = PROTO_MAGIC_TCP
             /\ r.writes >= 1

\* a connection answered a PING after its handshake and waits for the next frame
C2_Witness ==
  \E c \in DOMAIN conn :
    conn[c].pc = "ksockHeader" /\ conn[c].frames = 1 /\ conn[c].writes = 2

HelloRequestRead(r) ==
  /\ Len(r.rx) = 8 + 2 * ProtocolVersionNIDBytes(r.loc.protocolVersion) + 32
  /\ r.loc.protocolMagic \in {PROTO_MAGIC_GENERIC, PROTO_MAGIC_TCP}
  /\ r.loc.protocolVersion \in {U32(2), U32(3), U32(4)}
  /\ r.loc.commonTail.NIPs = Zero32

\* C3: a handshake that fails at a read or at a check (short read, bad
\* acceptor magic or version, bad NID, bad HELLO magic or version, n_ips # 0)
\* has written no byte and the stream is closed; during the handshake the
\* server writes one HELLO reply only, after the whole HELLO request was read
\* and checked.
C3_NoBytesBeforeHelloReply ==
  \A c \in DOMAIN conn :
    LET r == conn[c]
    IN  /\ r.pc \in HandshakePCs => r.out = <<>> /\ r.writes = 0 /\ r.open
        /\ (HandshakeFailed(c) /\ r.err # "failed to write hello response") =>
             r.out = <<>> /\ ~r.open
        /\ r.pc = "negotiated" =>
             /\ r.writes = 1
             /\ HelloRequestRead(r)
             /\ Len(r.out) = Len(r.rx)

\* a HELLO with n_ips = 1 ended the connection
C3_Witness ==
  \E c \in DOMAIN conn :
    /\ conn[c].pc = "closed"
    /\ conn[c].err = "unsupported non-zero NIPs value"
    /\ conn[c].errValue = U32(1)
    /\ conn[c].phases = <<"acceptor">>

\* the other byte order
Flipped(o) == CHOOSE p \in Orders : p # o

AfterAcceptorMagic == (HandshakePCs \ {"acceptorMagic"}) \cup {"negotiated"}

HelloPCs == {"protocolVersion", "helloSource", "helloDest", "commonTail", "negotiated"}

\* C4 (state part): after the acceptor magic the byte order of the connection
\* is the other one when the magic read was ACCEPTOR_REV and the initial one
\* when it was ACCEPTOR, and the integers of the connection are read and
\* written in it: every value the handshake decoded is the value of the bytes
\* received in that order, the reply repeats the version and the PID bytes as
\* received, and KSOCK headers are read and written in it.
C4_OrderInUse ==
  \A c \in DOMAIN conn :
    LET r == conn[c]
        n == ProtocolVersionNIDBytes(r.loc.protocolVersion)
    IN  /\ r.pc \in AfterAcceptorMagic =>
             /\ r.loc.acceptorMagic \in {PROTO_MAGIC_ACCEPTOR, PROTO_MAGIC_ACCEPTOR_REV}
             /\ r.loc.acceptorMagic = PROTO_MAGIC_ACCEPTOR_REV
                  <=> r.ByteOrder = Flipped(clientByteOrder)
             /\ r.loc.acceptorMagic = PROTO_MAGIC_ACCEPTOR
                  <=> r.ByteOrder = clientByteOrder
        /\ r.pc \in {"acceptorVersion", "acceptorNID", "protocolMagic"} =>
             r.loc.acceptorMagic = Dec(clientByteOrder, SubSeq(r.rx, 1, 4))
        /\ r.pc \in {"acceptorNID", "protocolMagic"} =>
             r.loc.acceptorVersion = Dec(r.ByteOrder, SubSeq(r.rx, 5, 8))
        /\ r.pc \in HelloPCs =>
             r.loc.protocolMagic = Dec(r.ByteOrder, SubSeq(r.rx, 1, 4))
        /\ r.pc \in HelloPCs \ {"protocolVersion"} =>
             r.loc.protocolVersion = Dec(r.ByteOrder, SubSeq(r.rx, 5, 8))
        /\ r.pc = "negotiated" =>
             /\ r.loc.commonTail = DecCommonTail(r.ByteOrder, SubSeq(r.rx, 9 + 2 * n, 40 + 2 * n))
             /\ SubSeq(r.out, 5, 8) = Enc(r.ByteOrder, r.loc.protocolVersion)
             /\ SubSeq(r.out, 9 + 2 * n, 12 + 2 * n) = Enc(r.ByteOrder, r.loc.commonTail.SourcePID)
        /\ r.pc = "lnetMessage" => Dec(r.ByteOrder, SubSeq(r.rx, 1, 4)) = KSOCK_MSG_LNET
        /\ (r.pc \in FramePCs /\ r.out # <<>>) =>
             SubSeq(r.out, 1, 4) = Enc(r.ByteOrder, KSOCK_MSG_LNET)

\* C4 (step part): once the acceptor magic is read, no step of the connection
\* changes its byte order.
C4_OrderNeverChangesAgain ==
  \A c \in DOMAIN conn :
    (conn[c].pc \notin {"idle", "acceptorMagic", "closed"} /\ conn'[c].pc # "closed")
      => conn'[c].ByteOrder = conn[c].ByteOrder

\* C4: in Negotiate the byte order after the acceptor magic is the opposite of
\* the initial order iff the magic read was ACCEPTOR_REV and the initial order
\* if it was ACCEPTOR; every later integer of the connection is read and
\* written in that order, which never changes again.
C4_ByteOrderFollowsAcceptorMagic ==
  []C4_OrderInUse /\ [][C4_OrderNeverChangesAgain]_vars

\* a connection that read ACCEPTOR_REV finished its handshake in the flipped order
C4_Witness ==
  \E c \in DOMAIN conn :
    /\ conn[c].pc = "negotiated"
    /\ conn[c].loc.acceptorMagic = PROTO_MAGIC_ACCEPTOR_REV
    /\ conn[c].ByteOrder = Flipped(clientByteOrder)

\* C5 (step part): no step changes DEFAULT_BYTE_ORDER or the client's
\* ByteOrder, and a step of one connection leaves the byte order of the
\* others alone.
C5_FlipTouchesOneConnection ==
  /\ DEFAULT_BYTE_ORDER' = DEFAULT_BYTE_ORDER
  /\ clientByteOrder' = clientByteOrder
  /\ \A c \in DOMAIN conn :
       conn'[c].ByteOrder # conn[c].ByteOrder =>
         \A d \in DOMAIN conn \ {c} : conn'[d].ByteOrder = conn[d].ByteOrder

\* C5: a byte-order flip on one connection changes that connection's context
\* only: DEFAULT_BYTE_ORDER, the client's ByteOrder and the byte order of the
\* other connections stay, and a connection accepted after a flipped one
\* starts in the client's original order.
C5_FlipIsLocal ==
  /\ [][C5_FlipTouchesOneConnection]_vars
  /\ [](\A c \in DOMAIN conn :
          conn[c].pc = "acceptorMagic" =>
            conn[c].ByteOrder = DEFAULT_BYTE_ORDER /\ clientByteOrder = DEFAULT_BYTE_ORDER)

\* one connection runs its frame loop in the flipped order while another has
\* just been accepted in the original order
C5_Witness ==
  \E c, d \in DOMAIN conn :
    /\ conn[c].pc = "ksockHeader" /\ conn[c].ByteOrder = Flipped(DEFAULT_BYTE_ORDER)
    /\ conn[d].pc = "acceptorMagic" /\ conn[d].ByteOrder = DEFAULT_BYTE_ORDER

AcceptorMagics == {PROTO_MAGIC_ACCEPTOR, PROTO_MAGIC_ACCEPTOR_REV}

\* C6: Negotiate fails when the first word is GENERIC or anything but ACCEPTOR
\* or ACCEPTOR_REV, and fails when the acceptor version is not 1 or 2; it goes
\* on to read the source NID exactly when the magic is one of the two and the
\* version is 1 or 2.
C6_AcceptorMagicAndVersion ==
  \A c \in DOMAIN conn :
    LET r == conn[c]
    IN  /\ r.pc \in AfterAcceptorMagic => r.loc.acceptorMagic \in AcceptorMagics
        /\ r.pc \in AfterAcceptorMagic \ {"acceptorVersion"} =>
             r.loc.acceptorVersion \in {U32(1), U32(2)}
        /\ (r.pc = "closed" /\ r.err = "invalid acceptor magic") =>
             r.errValue \notin AcceptorMagics \cup {PROTO_MAGIC_GENERIC}
        /\ (r.pc = "closed" /\ r.err = "Generic protocol not supported by LNetClient yet") =>
             r.errValue = PROTO_MAGIC_GENERIC
        /\ (r.pc = "closed" /\ r.err = "unsupported acceptor version") =>
             r.errValue \notin {U32(1), U32(2)}

\* Negotiate read ACCEPTOR_REV and version 2 and is about to read the source NID
C6_Witness ==
  \E c \in DOMAIN conn :
    /\ conn[c].pc = "acceptorNID"
    /\ conn[c].loc.acceptorMagic = PROTO_MAGIC_ACCEPTOR_REV
    /\ conn[c].loc.acceptorVersion = U32(2)

\* the NIDs a peer may announce in well-formed wire form
AnnouncedNIDs == {PeerNID, PeerENID, AnyNID}

\* C7 (state part): once the acceptor exchange succeeded, remote.NID is the NID
\* whose wire form the request carried, in the byte order of the connection;
\* the compact NID of size 0, type TCP, index 0 and address word 0xC0A80105
\* is the identity 192.168.1.5@tcp0 (String() prints it with the port, "#988",
\* appended); and the warning is given exactly on a variant mismatch.
C7_RemoteNIDIsDecodedNID ==
  \A c \in DOMAIN conn :
    LET r == conn[c]
        wire == SubSeq(r.rx, 9, Len(r.rx))
    IN  r.pc = "protocolMagic" =>
          /\ \A n \in AnnouncedNIDs : wire = NIDWire(r.ByteOrder, n) => r.NID = n
          /\ wire = NIDWire(r.ByteOrder, NID64(0, NETWORK_TYPE_TCP, <<0, 0>>, <<192, 168, 1, 5>>, DEFAULT_PORT)) =>
               /\ NIDString(r.NID).addr = <<192, 168, 1, 5>>
               /\ NIDString(r.NID).net = "tcp"
               /\ NIDString(r.NID).index = 0
          /\ r.loc.warned <=>
               \/ r.loc.acceptorVersion = U32(1) /\ r.NID.variant # "NID64"
               \/ r.loc.acceptorVersion = U32(2) /\ r.NID.variant # "ExtendedNID"

\* C7 (step part): no well-formed NID, of either variant and after either
\* version, makes the acceptor exchange fail.
C7_MismatchDoesNotFail ==
  \A c \in DOMAIN conn :
    (conn[c].pc = "acceptorNID" /\ conn'[c].pc = "closed") =>
      conn'[c].errValue \notin {NIDWire(conn[c].ByteOrder, n) : n \in AnnouncedNIDs}

\* C7: after a successful acceptor exchange the remote NID of the connection
\* is the NID decoded from the acceptor request (size 0, TCP, index 0, address
\* 0xC0A80105 is 192.168.1.5@tcp0), and a variant mismatch (version 1 with a
\* non-compact NID, version 2 with a non-extended one) is warned about
\* without failing the handshake.
C7_PeerIdentity ==
  []C7_RemoteNIDIsDecodedNID /\ [][C7_MismatchDoesNotFail]_vars

\* version 2 announced the compact NID 192.168.1.5@tcp0: warned, and accepted
C7_Witness ==
  \E c \in DOMAIN conn :
    /\ conn[c].pc = "protocolMagic"
    /\ conn[c].loc.acceptorVersion = U32(2)
    /\ conn[c].loc.warned
    /\ conn[c].NID = PeerNID
    /\ NIDString(conn[c].NID).addr = <<192, 168, 1, 5>>

\* C8: ProtocolUpgrade accepts exactly the magics GENERIC and TCP and exactly
\* the versions 2, 3 and 4 and rejects every other magic or version; on every
\* connection whose handshake succeeded remote.Protocol is TCP, whichever of
\* the two magics the peer sent.
C8_ProtocolMagicAndVersion ==
  \A c \in DOMAIN conn :
    LET r == conn[c]
    IN  /\ r.pc \in HelloPCs => r.loc.protocolMagic \in {PROTO_MAGIC_GENERIC, PROTO_MAGIC_TCP}
        /\ r.pc \in HelloPCs \ {"protocolVersion"} =>
             r.loc.protocolVersion \in {U32(2), U32(3), U32(4)}
        /\ (r.pc = "closed" /\ r.err = "unsupported protocol magic") =>
             r.errValue \notin {PROTO_MAGIC_GENERIC, PROTO_MAGIC_TCP}
        /\ (r.pc = "closed" /\ r.err = "unsupported protocol version") =>
             r.errValue \notin {U32(2), U32(3), U32(4)}
        /\ r.pc \in {"negotiated"} \cup FramePCs => r.Protocol = PROTO_MAGIC_TCP

\* a peer that sent GENERIC finished the handshake on a connection tagged TCP
C8_Witness ==
  \E c \in DOMAIN conn :
    /\ conn[c].pc = "negotiated"
    /\ conn[c].loc.protocolMagic = PROTO_MAGIC_GENERIC
    /\ conn[c].loc.protocolVersion = U32(4)
    /\ conn[c].Protocol = PROTO_MAGIC_TCP

\* C9: for every accepted combination of HELLO magic (GENERIC or TCP) and
\* protocol version (2, 3 or 4) the HELLO reply carries the magic and the
\* version the peer sent.
C9_ReplyEchoesMagicAndVersion ==
  \A c \in DOMAIN conn :
    LET r == conn[c]
    IN  r.pc = "negotiated" =>
          /\ SubSeq(r.out, 1, 4) = SubSeq(r.rx, 1, 4)
          /\ SubSeq(r.out, 5, 8) = SubSeq(r.rx, 5, 8)

\* C10: in the HELLO reply, for versions 2/3 and 4 alike, the source NID is
\* the received destination NID and the destination NID the received source
\* NID, bit for bit; dest_incarnation is the received source_incarnation,
\* dest_pid the received source_pid, source_pid the received source_pid;
\* conn_type is 3 if the received one was 2 and the received one otherwise;
\* n_ips is 0.
C10_ReplySwapsAndMirrors ==
  \A c \in DOMAIN conn :
    LET r == conn[c]
        n == ProtocolVersionNIDBytes(Dec(r.ByteOrder, SubSeq(r.rx, 5, 8)))
        got == DecCommonTail(r.ByteOrder, SubSeq(r.rx, 9 + 2 * n, 40 + 2 * n))
        sent == DecCommonTail(r.ByteOrder, SubSeq(r.out, 9 + 2 * n, 40 + 2 * n))
    IN  r.pc = "negotiated" =>
          /\ n \in {8, 20}
          /\ Len(r.out) = 40 + 2 * n
          /\ SubSeq(r.out, 9, 8 + n) = SubSeq(r.rx, 9 + n, 8 + 2 * n)
          /\ SubSeq(r.out, 9 + n, 8 + 2 * n) = SubSeq(r.rx, 9, 8 + n)
          /\ sent.DestIncarnation = got.SourceIncarnation
          /\ sent.DestPID = got.SourcePID
          /\ sent.SourcePID = got.SourcePID
          /\ sent.ConnType = IF got.ConnType = U32(2) THEN U32(3) ELSE got.ConnType
          /\ sent.NIPs = Zero32

\* a version 4 HELLO between two different NIDs, with different PIDs and
\* conn_type 2, was answered
C10_Witness ==
  \E c \in DOMAIN conn :
    LET r == conn[c]
    IN  /\ r.pc = "negotiated"
        /\ r.loc.protocolVersion = U32(4)
        /\ r.loc.rawSourceENid # r.loc.rawDestENid
        /\ r.loc.commonTail = BulkInTail
        /\ Len(r.out) = 80

\* C11: the source_incarnation written in every HELLO reply is a nonzero 64
\* bit value, for every value the random source can produce.
C11_SourceIncarnationNonzero ==
  \A c \in DOMAIN conn :
    LET r == conn[c]
        n == ProtocolVersionNIDBytes(r.loc.protocolVersion)
        sent == DecCommonTail(r.ByteOrder, SubSeq(r.out, 9 + 2 * n, 40 + 2 * n))
    IN  r.pc = "negotiated" => sent.SourceIncarnation # U64(0)

\* the type field of the KSOCK header that begins the bytes rx, read in order o
KSockType(o, rx) == Dec(o, SubSeq(rx, 1, 4))

\* the frame loop of r did nothing but read: no reply byte, no handler call
OnlyRead(r, q) == q.out = r.out /\ q.calls = r.calls

\* C12: a NOOP frame consumes exactly its 24 header bytes: no reply is written,
\* no handler is called, and the next 24 bytes are read as the next KSOCK
\* header; an LNET header leads to ReadCommand; a header of any other type
\* fails the connection, and nothing is read from it afterwards.
C12_NoopAndUnknownType ==
  [][\A c \in DOMAIN conn :
       LET r == conn[c]
           q == conn'[c]
       IN  /\ r.pc = "closed" => q = r
           /\ (r.pc = "ksockHeader" /\ q # r) =>
                 /\ OnlyRead(r, q)
                 /\ \/ /\ q.pc = "ksockHeader"
                       /\ q.open
                       /\ Len(q.rx) = 24
                       /\ KSockType(r.ByteOrder, q.rx) = KSOCK_MSG_NOOP
                       /\ q.frames = r.frames + 1
                       /\ q.msg = r.msg
                    \/ /\ q.pc = "lnetMessage"
                       /\ q.open
                       /\ Len(q.rx) = 24
                       /\ KSockType(r.ByteOrder, q.rx) = KSOCK_MSG_LNET
                       /\ q.frames = r.frames + 1
                    \/ /\ q.pc = "closed"
                       /\ ~q.open
                       /\ \/ q.err = "error reading message header"
                          \/ /\ q.err = "unsupported message type"
                             /\ Len(q.rx) = 24
                             /\ q.errValue = KSockType(r.ByteOrder, q.rx)
                             /\ q.errValue \notin {KSOCK_MSG_NOOP, KSOCK_MSG_LNET}]_vars

\* two NOOP frames in a row were read, and the loop waits for a third header
C12_Witness ==
  \E c \in DOMAIN conn :
    /\ conn[c].pc = "ksockHeader"
    /\ conn[c].frames = 2
    /\ KSockType(conn[c].ByteOrder, conn[c].rx) = KSOCK_MSG_NOOP
    /\ conn[c].msg = NilMessage
    /\ conn[c].out = <<>>

\* the bytes the two NIDs of the LNET frame take that begins the bytes rx,
\* behind its KSOCK header
NIDsLen(o, rx) ==
  LET m == SubSeq(rx, 25, Len(rx))
      d == ReadNID(o, m).consumed
  IN  d + ReadNID(o, SubSeq(m, d + 1, Len(m))).consumed

\* the LNetHeaderEmbed (dest PID, source PID, type, payload length) of that
\* frame; <<>> when the frame ends before it
LNetHeaderOf(o, rx) ==
  LET at == 24 + NIDsLen(o, rx)
  IN  IF Len(rx) >= at + 16
      THEN DecFields(o, <<4, 4, 4, 4>>, SubSeq(rx, at + 1, at + 16))
      ELSE <<>>

\* where the command body of that frame ends
BodyEnd(o, rx) == 24 + NIDsLen(o, rx) + 16 + Sum(CommandFields(LNetHeaderOf(o, rx)[3]))

\* the payload bytes of that frame that were read
PayloadRead(o, rx) == SubSeq(rx, BodyEnd(o, rx) + 1, Len(rx))

\* ReadCommand returns that frame as a message, without error: its type is
\* known, its body is complete, and of a payload at least one byte arrived
Decoded(o, rx) ==
  /\ LNetHeaderOf(o, rx) # <<>>
  /\ LNetHeaderOf(o, rx)[3] \in {U32(0), U32(1), U32(2), U32(3), U32(4)}
  /\ Len(rx) >= BodyEnd(o, rx)
  /\ LenValue(LNetHeaderOf(o, rx)[4]) > 0 => Len(rx) > BodyEnd(o, rx)

\* the message types of lnet-idl.h, 0 to 4
MessageTypes == {LNET_MSG_ACK, LNET_MSG_PUT, LNET_MSG_GET, LNET_MSG_REPLY, LNET_MSG_HELLO}

\* C13: an LNET frame whose message_type is none of 0..4 (99, say) ends the
\* connection: the stream is closed, no handler is invoked and no reply byte is
\* written.
C13_UnknownMessageTypeEndsConnection ==
  [][\A c \in DOMAIN conn :
       LET r == conn[c]
           q == conn'[c]
           hdr == LNetHeaderOf(r.ByteOrder, q.rx)
       IN  (r.pc = "lnetMessage" /\ q # r /\ hdr # <<>> /\ hdr[3] \notin MessageTypes) =>
             /\ q.pc = "closed"
             /\ ~q.open
             /\ q.err = "unsupported LNET message type"
             /\ q.errValue = hdr[3]
             /\ OnlyRead(r, q)]_vars

\* a frame of message type 99 ended the connection
C13_Witness ==
  \E c \in DOMAIN conn :
    /\ conn[c].pc = "closed"
    /\ ~conn[c].open
    /\ Len(conn[c].rx) > 24
    /\ conn[c].errValue = U32(99)
    /\ conn[c].calls = 0
    /\ conn[c].out = <<>>

\* C14: a decoded message of a type without registered handler (ACK, PUT,
\* REPLY and HELLO in the default registry) is skipped: its header, typed body
\* and payload are consumed in full, nothing is written, the connection stays
\* open and the loop reads the next KSOCK header.
C14_UnregisteredMessageIsSkipped ==
  [][\A c \in DOMAIN conn :
       LET r == conn[c]
           q == conn'[c]
           hdr == LNetHeaderOf(r.ByteOrder, q.rx)
       IN  (r.pc = "lnetMessage" /\ q # r /\ Decoded(r.ByteOrder, q.rx)
            /\ hdr[3] \notin Commands) =>
             /\ q.pc = "ksockHeader"
             /\ q.open
             /\ OnlyRead(r, q)
             /\ Len(PayloadRead(r.ByteOrder, q.rx)) = LenValue(hdr[4])]_vars

\* the command body of the LNET frame that begins the bytes rx: its fields
CommandOf(o, rx) ==
  LET at == 24 + NIDsLen(o, rx) + 16
  IN  DecFields(o, CommandFields(LNetHeaderOf(o, rx)[3]), SubSeq(rx, at + 1, BodyEnd(o, rx)))

\* that frame is a PING, and HandlePing cannot build the NID of some address of
\* the catalog: the handler of GET returns an error
PingFails(o, rx) ==
  /\ Decoded(o, rx)
  /\ LNetHeaderOf(o, rx)[3] = LNET_MSG_GET
  /\ CommandOf(o, rx)[3] = LNET_PROTO_PING_MATCHBITS
  /\ \E i \in 1..Len(LocalAddrs) :
       NIDFromAddr(DEFAULT_BYTE_ORDER, LocalAddrs[i], NETWORK_TYPE_TCP, <<0, 0>>,
                   DEFAULT_PORT).err # ""

\* C15: when a registered handler returns an error the frame loop stops: the
\* stream is closed and no further KSOCK header is read from the connection.
C15_HandlerErrorStopsLoop ==
  [][\A c \in DOMAIN conn :
       LET r == conn[c]
           q == conn'[c]
       IN  /\ (r.pc = "lnetMessage" /\ q # r /\ PingFails(r.ByteOrder, q.rx)) =>
                 /\ q.pc = "closed"
                 /\ ~q.open
                 /\ q.err = "error creating NID from address"
                 /\ q.calls = r.calls + 1
                 /\ q.out = r.out
           /\ (r.pc = "lnetMessage" /\ q.calls = r.calls + 1 /\ q.err # "") =>
                 q.pc = "closed" /\ ~q.open
           /\ (r.pc = "closed" /\ r.calls > 0) => q = r]_vars

\* HandlePing returned the error of NIDFromAddr, and the connection is closed
C15_Witness ==
  \E c \in DOMAIN conn :
    /\ conn[c].pc = "closed"
    /\ ~conn[c].open
    /\ conn[c].calls > 0
    /\ conn[c].err = "error creating NID from address"
    /\ PingFails(DEFAULT_BYTE_ORDER, conn[c].rx) \/ PingFails(GetOppositeByteOrder(DEFAULT_BYTE_ORDER), conn[c].rx)

\* the frames in the bytes b a connection wrote in order o, each an LNET frame
\* of a REPLY: KSOCK header, two NIDs (4 header bytes, then 4 + size address
\* bytes), LNetHeaderEmbed, DestWMD, payload; a frame cut short is not whole
RECURSIVE Replies(_, _)
Replies(o, b) ==
  IF b = <<>> THEN <<>>
  ELSE LET n1 == IF Len(b) >= 25 THEN 8 + b[25] ELSE 0
           n2 == IF Len(b) >= 25 + n1 THEN 8 + b[25 + n1] ELSE 0
           at == 24 + n1 + n2
           hdr == IF Len(b) >= at + 16
                  THEN DecFields(o, <<4, 4, 4, 4>>, SubSeq(b, at + 1, at + 16))
                  ELSE <<Zero32, Zero32, Zero32, Zero32>>
           end == at + 32 + LenValue(hdr[4])
       IN  IF n1 = 0 \/ n2 = 0 \/ Len(b) < at + 16 \/ Len(b) < end
           THEN <<[whole |-> FALSE, ksock |-> Zero32, type |-> Zero32, wmd |-> <<>>]>>
           ELSE <<[whole |-> TRUE,
                   ksock |-> Dec(o, SubSeq(b, 1, 4)),
                   type |-> hdr[3],
                   wmd |-> DecFields(o, <<8, 8>>, SubSeq(b, at + 17, at + 32))]>>
                \o Replies(o, SubSeq(b, end + 1, Len(b)))

IsPing(get) == get[3] = LNET_PROTO_PING_MATCHBITS

C17_PayloadReadInFull ==
  [][\A c \in DOMAIN conn :
       LET r == conn[c]
           q == conn'[c]
           n == LenValue(LNetHeaderOf(r.ByteOrder, q.rx)[4])
       IN  (r.pc = "lnetMessage" /\ q # r /\ Decoded(r.ByteOrder, q.rx) /\ n > 0) =>
             /\ Len(PayloadRead(r.ByteOrder, q.rx)) = n
             /\ q.pc = "ksockHeader" => q.msg.Payload = PayloadRead(r.ByteOrder, q.rx)]_vars

\* two NIDs agree in variant, size, type, index and address words (the port is
\* not on the wire)
SameNID(a, b) ==
  /\ a.variant = b.variant
  /\ a.Size = b.Size
  /\ a.Type = b.Type
  /\ a.NetworkIndex = b.NetworkIndex
  /\ a.Addr = b.Addr

\* C18: for every message m with a command body and either byte order o,
\* ReadCommand on the bytes ToBytes(m, o) wrote, read in o, yields the same
\* destination NID, source NID, PIDs, message type, command body and payload.
C18_MessageRoundTrip ==
  codec.pc = "msgRead" =>
    /\ codec.back.err = ""
    /\ SameNID(codec.back.message.DestNID, codec.message.DestNID)
    /\ SameNID(codec.back.message.SourceNID, codec.message.SourceNID)
    /\ codec.back.message.DestPID = codec.message.DestPID
    /\ codec.back.message.SourcePID = codec.message.SourcePID
    /\ codec.back.message.MessageType = codec.message.MessageType
    /\ codec.back.message.LNetCommand = codec.message.LNetCommand
    /\ codec.back.message.Payload = codec.message.Payload

\* the payload_length field in the bytes of a message written in order o: the
\* fourth word behind the two NIDs (4 header bytes and 4 + size address bytes each)
WrittenPayloadLength(o, b) ==
  LET n1 == 8 + (IF b[1] = 255 THEN 0 ELSE b[1])
      n2 == 8 + (IF b[n1 + 1] = 255 THEN 0 ELSE b[n1 + 1])
  IN  Dec(o, SubSeq(b, n1 + n2 + 13, n1 + n2 + 16))

\* C19: the payload_length ToBytes writes is the number of payload bytes,
\* whatever PayloadLength the caller stored in the message.
C19_PayloadLengthIsPayloadSize ==
  codec.pc \in {"msgBytes", "msgRead"} =>
    LenValue(WrittenPayloadLength(codec.order, codec.bytes)) = Len(codec.message.Payload)

\* a message was written whose stored PayloadLength is not the size of its payload
C19_Witness ==
  /\ codec.pc = "msgBytes"
  /\ codec.message.PayloadLength = U32(5)
  /\ Len(codec.message.Payload) = 2
  /\ WrittenPayloadLength(codec.order, codec.bytes) = U32(2)

\* C20: for every NID n NIDFromAddr can build and either byte order o,
\* ReadNID on the bytes n.ToBytes(o) wrote, read in o, returns a NID of the same
\* variant, size, type, index and address words (the port is not compared).
C20_NIDRoundTrip ==
  codec.pc \in {"nidRead", "msgBytes", "msgRead"} =>
    /\ codec.nidBack.err = ""
    /\ codec.nidBack.consumed = Len(codec.nidBytes)
    /\ SameNID(codec.nidBack.nid, codec.nid)

\* the port a NID string names: 988 when it names none
PortOf(s) == IF s.port = <<>> THEN DEFAULT_PORT ELSE s.port[1]

\* a legal NID string: an IPv4 or IPv6 address, tcp, o2ib or lo, a 16 bit
\* index and, if any, a 16 bit port
LegalNIDString(s) ==
  /\ s.text = ""
  /\ Len(s.addr) \in {4, 16}
  /\ s.net \in {"tcp", "o2ib", "lo"}
  /\ s.index <= 65535
  /\ s.port # <<>> => s.port[1] \in 1..65535

\* C21: for every legal NID string s, String(ParseNID(s)) is s up to the
\* omission of the default port 988, and ParseNID(String(n)) = n for every NID
\* n ParseNID returns, on a host of either byte order.
C21_NIDStringRoundTrip ==
  /\ (codec.pc \in {"parsed", "printed", "panicked", "reparsed", "rejected"}
      /\ LegalNIDString(codec.str)) =>
        /\ codec.pc \notin {"panicked", "rejected"}
        /\ codec.pc \in {"printed", "reparsed"} =>
              /\ codec.printed.s.text = ""
              /\ codec.printed.s.addr = codec.str.addr
              /\ codec.printed.s.net = codec.str.net
              /\ codec.printed.s.index = codec.str.index
              /\ PortOf(codec.printed.s) = PortOf(codec.str)
  /\ codec.pc # "panicked"
  /\ codec.pc = "reparsed" =>
        codec.reparsed.err = "" /\ codec.reparsed.nid = codec.parsed.nid

\* userland ports a NID may carry
SomePorts == {0, 1, DEFAULT_PORT, 7000, 65535}

\* C22: no NID encoding depends on the userland port: in every byte order a
\* NID and the NIDs that differ from it in the port only have the same ToBytes
\* output, which is 8 bytes for a compact NID and 20 bytes (the header and four
\* address words) for an extended NID, with no port bytes appended.
C22_PortNeverOnWire ==
  codec.pc \in {"nidBytes", "nidRead", "msgBytes", "msgRead"} =>
    /\ Len(codec.nidBytes) = IF codec.nid.variant = "ExtendedNID" THEN 20 ELSE 8
    /\ \A o \in Orders, port \in SomePorts :
         /\ NIDToBytes(o, [codec.nid EXCEPT !.Port = port]) = NIDToBytes(o, codec.nid)
         /\ Len(NIDToBytes(o, codec.nid)) = Len(codec.nidBytes)

\* an extended NID with the port 7000 was written as 20 bytes
C22_Witness ==
  /\ codec.pc = "nidBytes"
  /\ codec.nid.variant = "ExtendedNID"
  /\ codec.nid.Port = 7000
  /\ Len(codec.nidBytes) = 20

\* the steps of the caller of NIDFromAddr after nid was built, and after
\* ReadNID and ToNID64 returned
AfterNID == {"nid", "nidBytes", "nidRead", "nid64", "msgBytes", "msgRead"}

AfterReadNID == {"nidRead", "nid64", "msgBytes", "msgRead"}

AfterToNID64 == {"nid64", "msgBytes", "msgRead"}

\* the NID x is a wildcard exactly if its network type is 0xFF
WildcardIffAny(x) == IsAny(x) <=> x.Type = 255

\* C23: NIDFromAddr maps the unspecified address to the wildcard NID, an IPv4
\* address to a compact NID of size 0 and an IPv6 address to an extended NID
\* of size 12; and for every NID the program produces (NIDFromAddr, ParseNID,
\* ReadNID, RawNID64.ToNID64), IsAny() is true exactly if its network type is
\* ANY (0xFF).
C23_NIDFromAddrAndIsAny ==
  /\ codec.pc \in AfterNID =>
        /\ codec.addr = Zeros(Len(codec.addr)) => codec.nid = AnyNID
        /\ (Len(codec.addr) = 4 /\ codec.addr # Zeros(4)) =>
              codec.nid.variant = "NID64" /\ codec.nid.Size = 0 /\ Len(codec.nid.Addr) = 1
        /\ (Len(codec.addr) = 16 /\ codec.addr # Zeros(16)) =>
              /\ codec.nid.variant = "ExtendedNID"
              /\ codec.nid.Size = 12
              /\ Len(codec.nid.Addr) = 4
        /\ WildcardIffAny(codec.nid)
  /\ (codec.pc \in AfterReadNID /\ codec.nidBack.err = "") => WildcardIffAny(codec.nidBack.nid)
  /\ codec.pc \in AfterToNID64 => WildcardIffAny(codec.nid64)
  /\ codec.pc \in {"parsed", "printed", "panicked", "reparsed"} =>
        WildcardIffAny(codec.parsed.nid)
  /\ (codec.pc = "reparsed" /\ codec.reparsed.err = "") => WildcardIffAny(codec.reparsed.nid)

\* NIDFromAddr returned the wildcard for the unspecified IPv6 address, ReadNID
\* and ToNID64 returned it for its bytes
C23_Witness ==
  /\ codec.pc = "nid64"
  /\ Len(codec.addr) = 16
  /\ IsAny(codec.nid) /\ IsAny(codec.nidBack.nid) /\ IsAny(codec.nid64)

\* C24: ParseNID returns the wildcard for the literals "any" and "*"; any other
\* string fails unless it has the form addr@letters index [#port] with letters
\* tcp, o2ib or lo in either case, an index that fits 16 bits and a port that
\* fits 16 bits; when the port is omitted the port of the NID is 988.
C24_ParseNIDAccepts ==
  codec.pc \in {"parsed", "printed", "panicked", "reparsed", "rejected"} =>
    /\ codec.str.text \in {"any", "*"} =>
          codec.pc # "rejected" /\ codec.parsed.nid = AnyNID
    /\ (codec.str.text \notin {"any", "*"} /\ codec.pc # "rejected") =>
          /\ codec.str.text = ""
          /\ codec.str.net \in {"tcp", "TCP", "o2ib", "lo"}
          /\ codec.str.index < 65536
          /\ codec.str.port # <<>> => codec.str.port[1] < 65536
          /\ codec.str.port = <<>> => codec.parsed.nid.Port = 988
    /\ codec.pc = "rejected" => codec.parsed.err # "" /\ codec.parsed.nid = NilNID

\* a string with upper case letters and no port was parsed
C24_Witness ==
  /\ codec.pc = "parsed"
  /\ codec.str.net = "TCP"
  /\ codec.str.port = <<>>
  /\ codec.str.index = 65535
  /\ codec.parsed.nid.Type = NETWORK_TYPE_TCP
  /\ codec.parsed.nid.NetworkIndex = <<255, 255>>
  /\ codec.parsed.nid.Port = 988

\* the step of connection c wrote the reply to the PING it read
RepliedToPing(c) ==
  /\ conn[c].pc = "lnetMessage"
  /\ conn'[c].pc = "ksockHeader"
  /\ conn'[c].writes = conn[c].writes + 1

\* C25: the reply built for a PING request has message type REPLY, the
\* request's source NID as destination NID and its destination NID as source
\* NID, the request's source PID as destination PID and its destination PID as
\* source PID, and a REPLY body whose dest_wmd is the request's return_wmd,
\* both cookies.
C25_ReplySwapsRequest ==
  [][\A c \in DOMAIN conn :
       LET request == conn'[c].msg
           reply == conn'[c].reply
       IN  RepliedToPing(c) =>
             /\ reply.MessageType = <<0, 0, 0, 3>>
             /\ reply.DestNID = request.SourceNID
             /\ reply.SourceNID = request.DestNID
             /\ reply.DestPID = request.SourcePID
             /\ reply.SourcePID = request.DestPID
             /\ Len(reply.LNetCommand) = 2
             /\ reply.LNetCommand[1] = request.LNetCommand[1]
             /\ reply.LNetCommand[2] = request.LNetCommand[2]
             /\ request.LNetCommand[3] = LNET_PROTO_PING_MATCHBITS]_vars

\* a PING from the peer to the server was answered: the NIDs, the PIDs and the
\* cookies of the request differ from each other
C25_Witness ==
  \E c \in DOMAIN conn :
    /\ conn[c].pc = "ksockHeader"
    /\ conn[c].reply.MessageType = LNET_MSG_REPLY
    /\ conn[c].msg.SourceNID # conn[c].msg.DestNID
    /\ conn[c].msg.SourcePID # conn[c].msg.DestPID
    /\ conn[c].msg.LNetCommand[1] # conn[c].msg.LNetCommand[2]
    /\ conn[c].reply.DestNID = conn[c].msg.SourceNID

\* the NIDStatus records in the bytes b of a PING payload written in order o:
\* a NID (4 header bytes, 4 + size address bytes; the wildcard is 8 bytes), the
\* status and the message size; a record cut short is not whole
RECURSIVE PingRecords(_, _)
PingRecords(o, b) ==
  IF b = <<>> THEN <<>>
  ELSE LET n == 8 + (IF b[1] = 255 THEN 0 ELSE b[1])
       IN  IF Len(b) < n + 8
           THEN <<[whole |-> FALSE, type |-> 0, index |-> <<>>, addr |-> <<>>,
                   status |-> <<>>, size |-> <<>>]>>
           ELSE <<[whole |-> TRUE, type |-> b[2], index |-> Dec(o, SubSeq(b, 3, 4)),
                   addr |-> SubSeq(b, 5, n),
                   status |-> Dec(o, SubSeq(b, n + 1, n + 4)),
                   size |-> Dec(o, SubSeq(b, n + 5, n + 8))]>>
                \o PingRecords(o, SubSeq(b, n + 9, Len(b)))

\* the bytes wire, written in order o, are the words of the address addr as
\* the host reads them
AddressWords(o, wire, addr) ==
  /\ Len(wire) = Len(addr)
  /\ \A k \in 1..(Len(addr) \div 4) :
       Dec(o, SubSeq(wire, 4 * k - 3, 4 * k)) =
         Dec(DEFAULT_BYTE_ORDER, SubSeq(addr, 4 * k - 3, 4 * k))

\* C26: for every catalog of local addresses the payload of the PING reply is,
\* in the byte order of the connection and with no length prefix: magic
\* 0x70696E67, features 3, the destination PID of the request, the number of
\* local addresses, then one record per address in catalog order (the NID,
\* status 0x15AAC0DE, message size 0), each NID of network type TCP and index
\* 0; the payload_length of the reply header is the length of this payload.
C26_PingPayload ==
  [][\A c \in DOMAIN conn :
       LET o == conn[c].ByteOrder
           payload == conn'[c].reply.Payload
           records == PingRecords(o, SubSeq(payload, 17, Len(payload)))
       IN  RepliedToPing(c) =>
             /\ Len(payload) >= 16
             /\ Dec(o, SubSeq(payload, 1, 4)) = <<112, 105, 110, 103>>
             /\ Dec(o, SubSeq(payload, 5, 8)) = <<0, 0, 0, 3>>
             /\ Dec(o, SubSeq(payload, 9, 12)) = conn'[c].msg.DestPID
             /\ LenValue(Dec(o, SubSeq(payload, 13, 16))) = Len(LocalAddrs)
             /\ Len(records) = Len(LocalAddrs)
             /\ \A i \in 1..Len(records) :
                  /\ records[i].whole
                  /\ records[i].type = 2
                  /\ records[i].index = <<0, 0>>
                  /\ AddressWords(o, records[i].addr, LocalAddrs[i])
                  /\ records[i].status = <<21, 170, 192, 222>>
                  /\ records[i].size = <<0, 0, 0, 0>>
             /\ LenValue(conn'[c].reply.PayloadLength) = Len(payload)]_vars

\* the LNET frame that begins the bytes rx, read in order o, is a decoded GET
GetFrame(o, rx) ==
  /\ Decoded(o, rx)
  /\ LNetHeaderOf(o, rx)[3] = LNET_MSG_GET

\* C27: a GET whose match bits are not 0x8000000000000000 makes the handler
\* fail: the frame loop ends with that error and nothing is written; a reply
\* is written only for a GET with the match bits of a PING, and a portal
\* index that is not 0 does not prevent that reply (a write that fails does).
C27_OnlyPingIsAnswered ==
  [][\A c \in DOMAIN conn :
       LET r == conn[c]
           q == conn'[c]
           o == r.ByteOrder
           get == CommandOf(o, q.rx)
       IN  /\ (r.pc = "lnetMessage" /\ q # r /\ GetFrame(o, q.rx) /\ ~IsPing(get)) =>
                 /\ q.pc = "closed"
                 /\ ~q.open
                 /\ q.err # ""
                 /\ q.out = r.out
           /\ (r.pc = "lnetMessage" /\ q.out # r.out) =>
                 GetFrame(o, q.rx) /\ IsPing(get)
           /\ (r.pc = "lnetMessage" /\ q # r /\ GetFrame(o, q.rx) /\ IsPing(get)
               /\ get[4] # Zero32 /\ ~PingFails(o, q.rx)) =>
                 \/ q.out # r.out /\ q.writes = r.writes + 1
                 \/ q.err = "failed to send message"]_vars

\* Listen is in its accept loop
Listening == proc = "running" /\ listenResult = ""

BlockedInRead(c) ==
  /\ proc = "running"
  /\ conn[c].open
  /\ conn[c].pc \in HandshakePCs \cup FramePCs

\* C29: once the context of Listen is cancelled, every connection task that is
\* blocked in a read of an accepted connection eventually sees its stream
\* closed and exits (or the process has ended), whether or not the peer sends
\* or closes.
C29_CancelEndsConnections ==
  \A c \in Conns :
    [](cancelled /\ BlockedInRead(c) =>
         <>(proc = "panicked" \/ (conn[c].pc = "closed" /\ ~conn[c].open)))

\* C30: Swab16, Swab32 and Swab64 reverse the bytes of their argument (byte i
\* of the result is byte w-1-i of the argument), and swapping twice gives the
\* argument back.
C30_SwabReversesAndInvolutes ==
  /\ codec.pc \in {"swabbed", "swabbedBack"} =>
       /\ Len(codec.y) = Len(codec.x)
       /\ \A i \in 1..Len(codec.x) : codec.y[i] = codec.x[Len(codec.x) + 1 - i]
  /\ codec.pc = "swabbedBack" => codec.back = codec.x

\* 0x1122334455667788 was swapped to 0x8877665544332211 and back
C30_Witness ==
  /\ codec.pc = "swabbedBack"
  /\ codec.x = <<17, 34, 51, 68, 85, 102, 119, 136>>
  /\ codec.y = <<136, 119, 102, 85, 68, 51, 34, 17>>
  /\ codec.back = codec.x

\* the protocol magics of lnet-idl.h
ProtocolMagics ==
  {PROTO_MAGIC_ACCEPTOR, PROTO_MAGIC_ACCEPTOR_REV, PROTO_MAGIC_GENERIC, PROTO_MAGIC_TCP}

\* C31: PROTO_MAGIC_ACCEPTOR_REV is Swab32(PROTO_MAGIC_ACCEPTOR): the four
\* bytes that encode ACCEPTOR in one byte order decode to ACCEPTOR_REV in the
\* other order, and to no other magic.
C31_AcceptorRevIsSwab ==
  (codec.pc \in {"swabbed", "swabbedBack"} /\ codec.x = PROTO_MAGIC_ACCEPTOR) =>
    /\ codec.y = PROTO_MAGIC_ACCEPTOR_REV
    /\ \A o \in Orders :
         /\ Dec(GetOppositeByteOrder(o), Enc(o, codec.x)) = codec.y
         /\ Dec(GetOppositeByteOrder(o), Enc(o, codec.x)) \notin
              ProtocolMagics \ {PROTO_MAGIC_ACCEPTOR_REV}
         /\ AcceptorMagicSwitch(GetOppositeByteOrder(o),
                                Dec(GetOppositeByteOrder(o), Enc(o, codec.x))) =
              [err |-> "", order |-> o]

\* Swab32 was applied to PROTO_MAGIC_ACCEPTOR and gave PROTO_MAGIC_ACCEPTOR_REV
C31_Witness ==
  /\ codec.pc = "swabbed"
  /\ codec.x = PROTO_MAGIC_ACCEPTOR
  /\ codec.y = PROTO_MAGIC_ACCEPTOR_REV

\* C32: for every byte order (little, big or the native one) exactly one of
\* IsLittleEndian and IsBigEndian holds; the opposite of LittleEndian is
\* BigEndian and the opposite of BigEndian is LittleEndian, and the opposite
\* of the opposite has the endianness of the order; after init
\* DEFAULT_BYTE_ORDER is the explicit order of the host's endianness,
\* classified as the native order is.
C32_ByteOrderClassification ==
  codec.pc = "classified" =>
    /\ codec.little # codec.big
    /\ codec.o = "LE" => codec.little /\ codec.opposite = "BE"
    /\ codec.o = "BE" => codec.big /\ codec.opposite = "LE"
    /\ codec.opposite \in Orders /\ codec.twice \in Orders
    /\ IsLittleEndian(codec.opposite) # codec.little
    /\ IsLittleEndian(codec.twice) = codec.little
    /\ DEFAULT_BYTE_ORDER \in Orders
    /\ IsLittleEndian(DEFAULT_BYTE_ORDER) = (codec.native = "NativeLE")
    /\ codec.o = codec.native =>
         /\ codec.little = IsLittleEndian(DEFAULT_BYTE_ORDER)
         /\ codec.big = IsBigEndian(DEFAULT_BYTE_ORDER)
         /\ codec.twice = DEFAULT_BYTE_ORDER

\* the native order of a little-endian host was classified
C32_Witness ==
  /\ codec.pc = "classified"
  /\ codec.o = "NativeLE"
  /\ codec.little
  /\ codec.opposite = "BE"
  /\ DEFAULT_BYTE_ORDER = "LE"

\* the variants of NetworkType
NetworkTypes == {NETWORK_TYPE_TCP, NETWORK_TYPE_O2IB, NETWORK_TYPE_LO, NETWORK_TYPE_ANY}

\* C33: the variants TCP = 2, O2IB = 5, LO = 9 and ANY = 0xFF are given back by
\* NetworkTypeFromString from the name String prints; every name that is not
\* the name of a variant is rejected; the command codes are ACK = 0, PUT = 1,
\* GET = 2, REPLY = 3 and HELLO = 4, and the process does not start when HELLO
\* is not 4.
C33_NetworkTypeNamesRoundTrip ==
  /\ <<NETWORK_TYPE_TCP, NETWORK_TYPE_O2IB, NETWORK_TYPE_LO, NETWORK_TYPE_ANY>> =
       <<2, 5, 9, 255>>
  /\ <<LNET_MSG_ACK, LNET_MSG_PUT, LNET_MSG_GET, LNET_MSG_REPLY, LNET_MSG_HELLO>> =
       <<U32(0), U32(1), U32(2), U32(3), U32(4)>>
  /\ (LNET_MSG_HELLO # U32(4)) = (initCommands = "panicked")
  /\ codec.pc = "typed" =>
       /\ codec.t \in NetworkTypes => codec.back = [err |-> "", type |-> codec.t]
       /\ ToLower(codec.name) \notin {NetworkTypeString(t) : t \in NetworkTypes} =>
            codec.back.err # ""

\* the 64 bit header word (most significant byte first) at the head of the
\* stream of a caller of ReadNID
WireHeader == Dec(codec.order, SubSeq(codec.in, 1, 8))

\* C34: for a header whose type is not ANY, ReadNID dispatches on the size
\* byte: size 0 gives a compact NID and consumes exactly 8 bytes; size 12
\* gives an extended NID after three more 32 bit words, its first address word
\* the low 32 bits of the header; sizes 2 and 14 fail as not yet supported;
\* every other size fails. Size is bits 56-63 of the header word, type bits
\* 48-55, index bits 32-47 and address bits 0-31, as in RawNID64.ToNID64.
C34_ReadNIDDispatchesOnSize ==
  (codec.pc = "wireRead" /\ Len(codec.in) >= 8 /\ WireHeader[2] # NETWORK_TYPE_ANY) =>
    LET res == codec.res
        size == WireHeader[1]
    IN  /\ size = 0 =>
             /\ res.err = "" /\ res.consumed = 8
             /\ res.nid.variant = "NID64"
             /\ res.nid.Addr = <<SubSeq(WireHeader, 5, 8)>>
        /\ (size = 12 /\ Len(codec.in) >= 20) =>
             /\ res.err = "" /\ res.consumed = 20
             /\ res.nid.variant = "ExtendedNID"
             /\ res.nid.Addr =
                  <<SubSeq(WireHeader, 5, 8),
                    Dec(codec.order, SubSeq(codec.in, 9, 12)),
                    Dec(codec.order, SubSeq(codec.in, 13, 16)),
                    Dec(codec.order, SubSeq(codec.in, 17, 20))>>
        /\ size = 2 => res.err = "IPv4 + Port not yet supported"
        /\ size = 14 => res.err = "IPv6 + Port not yet supported"
        /\ size \notin {0, 2, 12, 14} => res.err = "unsupported NID size"
        /\ res.err = "" =>
             /\ res.nid.Size = size
             /\ res.nid.Type = WireHeader[2]
             /\ res.nid.NetworkIndex = <<WireHeader[3], WireHeader[4]>>
             /\ res.nid.Port = DEFAULT_PORT
             /\ res.nid.Size = codec.nid64.Size
             /\ res.nid.Type = codec.nid64.Type
             /\ res.nid.NetworkIndex = codec.nid64.NetworkIndex
             /\ res.nid.Addr[1] = codec.nid64.Addr[1]

\* ReadNID returned an extended NID from a little-endian stream that holds one
\* byte more than the NID
C34_Witness ==
  /\ codec.pc = "wireRead"
  /\ codec.order = "LE"
  /\ Len(codec.in) = 21
  /\ codec.res.err = ""
  /\ codec.res.consumed = 20
  /\ codec.res.nid.variant = "ExtendedNID"
  /\ codec.res.nid.Size = 12
  /\ codec.res.nid.Addr[1] = <<192, 168, 1, 5>>

\* C35: ReadNID returns the wildcard NID whenever the network type of the
\* header is ANY, whatever the size, index and address bits are; and when the
\* stream ends after the four header bytes size, type and index, before the
\* address word, ReadNID still returns the wildcard and no error.
C35_ReadNIDWildcard ==
  codec.pc = "wireRead" =>
    /\ (Len(codec.in) >= 8 /\ WireHeader[2] = NETWORK_TYPE_ANY) =>
         /\ codec.res.err = ""
         /\ codec.res.nid = AnyNID
         /\ codec.res.consumed = 8
    /\ (Len(codec.in) = 4 /\ codec.in[2] = NETWORK_TYPE_ANY) =>
         /\ codec.res.err = ""
         /\ codec.res.nid = AnyNID

\* the size field of the NID x is the length of its ToBytes encoding minus 8
SizeIsWireLength(x) ==
  \A o \in Orders : x.Size = Len(NIDToBytes(o, x)) - 8

\* C36: for every NID the program can hold (built by NIDFromAddr, the wildcard
\* AnyNID included, returned by ReadNID or by RawNID64.ToNID64) the size field
\* is the length in bytes of its ToBytes encoding minus 8.
C36_SizeIsWireLengthMinus8 ==
  /\ codec.pc \in AfterNID => SizeIsWireLength(codec.nid)
  /\ (codec.pc \in AfterReadNID /\ codec.nidBack.err = "") =>
        SizeIsWireLength(codec.nidBack.nid)
  /\ codec.pc \in AfterToNID64 => SizeIsWireLength(codec.nid64)
  /\ (codec.pc = "wireRead" /\ codec.res.err = "") => SizeIsWireLength(codec.res.nid)
  /\ (codec.pc = "wireRead" /\ Len(codec.in) >= 8) => SizeIsWireLength(codec.nid64)

\* the NID ReadNID returns at the head of the LNET frame that begins the bytes
\* rx, and the NID after it
FirstNID(o, rx) == ReadNID(o, SubSeq(rx, 25, Len(rx)))

SecondNID(o, rx) ==
  ReadNID(o, SubSeq(rx, 25 + FirstNID(o, rx).consumed, Len(rx)))

\* the step of connection c decoded an LNET frame and the loop goes on
DecodedFrame(c) ==
  /\ conn[c].pc = "lnetMessage"
  /\ conn'[c].pc = "ksockHeader"
  /\ Decoded(conn[c].ByteOrder, conn'[c].rx)

\* the message of that step holds the fixed header, the typed body and the
\* payload in the order of the frame
HeaderBodyPayloadInOrder(c) ==
  LET o == conn[c].ByteOrder
      rx == conn'[c].rx
      msg == conn'[c].msg
  IN  /\ <<msg.DestPID, msg.SourcePID, msg.MessageType, msg.PayloadLength>> =
           LNetHeaderOf(o, rx)
      /\ msg.LNetCommand = CommandOf(o, rx)
      /\ IsPrefix(PayloadRead(o, rx), msg.Payload)
      /\ Len(msg.Payload) = LenValue(msg.PayloadLength)

\* C37: decoding an LNet message, ReadCommand reads the source NID first and
\* the dest NID second, then the fixed header (dest_pid, source_pid,
\* message_type, payload_length), the typed body and the payload: the NID read
\* first is stored as the source NID of the message.
C37_SourceNIDReadFirst ==
  [][\A c \in DOMAIN conn :
       DecodedFrame(c) =>
         /\ conn'[c].msg.SourceNID = FirstNID(conn[c].ByteOrder, conn'[c].rx).nid
         /\ conn'[c].msg.DestNID = SecondNID(conn[c].ByteOrder, conn'[c].rx).nid
         /\ HeaderBodyPayloadInOrder(c)]_vars

\* C37 (amended): ReadCommand reads the dest NID first and the source NID
\* second, then the fixed header, the typed body and the payload: the NID read
\* first is stored as the dest NID of the message, the order in which
\* LNetMessage.ToBytes writes them.
C37_DestNIDReadFirst ==
  [][\A c \in DOMAIN conn :
       DecodedFrame(c) =>
         /\ conn'[c].msg.DestNID = FirstNID(conn[c].ByteOrder, conn'[c].rx).nid
         /\ conn'[c].msg.SourceNID = SecondNID(conn[c].ByteOrder, conn'[c].rx).nid
         /\ HeaderBodyPayloadInOrder(c)
         /\ \A o \in Orders :
              IsPrefix(NIDToBytes(o, conn'[c].msg.DestNID) \o
                         NIDToBytes(o, conn'[c].msg.SourceNID),
                       MessageToBytes(o, conn'[c].msg))]_vars

\* a PUT with a payload of two bytes was decoded: the NID of the server, first
\* on the wire, is the dest NID, and the NID of the peer the source NID
C37_Witness ==
  \E c \in DOMAIN conn :
    /\ conn[c].pc = "ksockHeader"
    /\ conn[c].msg.MessageType = LNET_MSG_PUT
    /\ conn[c].msg.Payload = <<7, 8>>
    /\ conn[c].msg.DestNID = FirstNID(conn[c].ByteOrder, conn[c].rx).nid
    /\ conn[c].msg.SourceNID = SecondNID(conn[c].ByteOrder, conn[c].rx).nid
    /\ conn[c].msg.DestNID # conn[c].msg.SourceNID


\* ------------------------------------------------------------------------
\* C38: the checksum and the zero-copy cookies of the KSOCK header
\* ------------------------------------------------------------------------

\* two frames that are the same bytes except the checksum and the two cookies
\* of the KSOCK header (bytes 5..24)
SameButChecksumAndCookies(a, b) ==
  /\ Len(a) = Len(b)
  /\ Len(a) >= 24
  /\ \A i \in 1..Len(a) : i \notin 5..24 => a[i] = b[i]

\* the connection r has handled its first frame to the end
FirstFrameHandled(r) ==
  /\ r.phases = AllPhases
  /\ Len(r.rx) >= 24
  /\ r.pc = "closed" \/ (r.pc = "ksockHeader" /\ r.frames = 1)

\* what the handling of a frame shows: the decoded message, the handler
\* calls, the bytes written, and how the connection goes on or ends
FrameOutcome(r) ==
  [pc |-> r.pc, msg |-> r.msg, calls |-> r.calls, handled |-> r.handled,
   reply |-> r.reply, out |-> r.out, writes |-> r.writes,
   err |-> r.err, errValue |-> r.errValue]

\* the Write of the reply failed on r: the network's doing, not the frame's
SendFailed(r) == r.err = "failed to send message"

\* C38: the handling of an LNET frame does not depend on the checksum or the
\* zero-copy cookies of the KSOCK header: two connections that were sent the
\* same frame except for those three fields (and whose writes succeeded)
\* decode the same message, call the same handlers, write the same bytes and
\* end or go on the same way; and a full header of type NOOP or LNET never
\* closes the connection, whatever its checksum
C38_ChecksumAndCookiesIgnored ==
  /\ [](\A c1, c2 \in DOMAIN conn :
         /\ FirstFrameHandled(conn[c1])
         /\ FirstFrameHandled(conn[c2])
         /\ SameButChecksumAndCookies(conn[c1].rx, conn[c2].rx)
         /\ ~SendFailed(conn[c1])
         /\ ~SendFailed(conn[c2])
         => FrameOutcome(conn[c1]) = FrameOutcome(conn[c2]))
  /\ [][\A c \in DOMAIN conn :
          LET r == conn[c]
              q == conn'[c]
          IN  /\ r.pc = "ksockHeader"
              /\ q # r
              /\ Len(q.rx) = 24
              /\ Dec(r.ByteOrder, SubSeq(q.rx, 1, 4)) \in {KSOCK_MSG_NOOP, KSOCK_MSG_LNET}
              => /\ q.pc # "closed"
                 /\ q.open
                 /\ proc' = "running"]_vars

\* two connections answered the same PING, one sent with a checksum that is
\* not zero and one sent with cookies that are not zero
C38_Witness ==
  \E c1, c2 \in DOMAIN conn :
    /\ FirstFrameHandled(conn[c1])
    /\ FirstFrameHandled(conn[c2])
    /\ SameButChecksumAndCookies(conn[c1].rx, conn[c2].rx)
    /\ SubSeq(conn[c1].rx, 5, 8) # Zero32
    /\ SubSeq(conn[c2].rx, 9, 24) # U64(0) \o U64(0)
    /\ conn[c1].pc = "ksockHeader"
    /\ conn[c1].out # <<>>
    /\ conn[c2].out = conn[c1].out


\* ------------------------------------------------------------------------
\* C39: the peer closes its side at a frame boundary
\* ------------------------------------------------------------------------

\* the step in which connection c, waiting for the next KSOCK header after
\* its handshake, reads the end of the stream before any byte of the header
CleanCloseAtFrameBoundary(c) ==
  /\ conn[c].pc = "ksockHeader"
  /\ conn[c].phases = AllPhases
  /\ conn'[c] # conn[c]
  /\ conn'[c].rx = <<>>

\* C39: when the peer closes its side of the stream at a frame boundary after
\* a successful handshake, the connection task closes the stream and returns;
\* the process keeps running and the other connections are as they were
C39_CleanCloseEndsOnlyTheConnection ==
  [][\A c \in DOMAIN conn :
       CleanCloseAtFrameBoundary(c) =>
         /\ conn'[c].pc = "closed"
         /\ ~conn'[c].open
         /\ proc' = "running"
         /\ \A d \in DOMAIN conn \ {c} : conn'[d] = conn[d]]_vars

\* (the part of C39 that the code keeps) the stream is closed and the other
\* connections are not touched by the step
C39_StreamClosed ==
  [][\A c \in DOMAIN conn :
       CleanCloseAtFrameBoundary(c) =>
         /\ conn'[c].pc = "closed"
         /\ ~conn'[c].open
         /\ \A d \in DOMAIN conn \ {c} : conn'[d] = conn[d]]_vars


\* ------------------------------------------------------------------------
\* C40: NetAddr of a NID built by NIDFromAddr
\* ------------------------------------------------------------------------

\* the caller built codec.nid from an IPv4 or IPv6 address that is not the
\* unspecified address
BuiltFromSpecifiedAddr ==
  /\ codec.pc \in AfterNID
  /\ Len(codec.addr) \in {4, 16}
  /\ codec.addr # Zeros(Len(codec.addr))

\* C40: for every IPv4 or IPv6 address a other than the unspecified address,
\* NetAddr(NIDFromAddr(a, type, index, port)) returns a, whatever the byte
\* order of the host; NetAddr and String do not fail for an extended NID
\* built from an IPv6 address
C40_NetAddrInvertsNIDFromAddr ==
  BuiltFromSpecifiedAddr =>
    /\ ~NetAddr(codec.nid).panic
    /\ NetAddr(codec.nid).addr = codec.addr
    /\ ~String(codec.nid).panic

\* (the part of C40 that the code keeps) on a big-endian host NetAddr gives
\* back every IPv4 address NIDFromAddr was called with
C40_BigEndianIPv4 ==
  BuiltFromSpecifiedAddr /\ DEFAULT_BYTE_ORDER = "BE" /\ Len(codec.addr) = 4 =>
    /\ ~NetAddr(codec.nid).panic
    /\ NetAddr(codec.nid).addr = codec.addr
    /\ ~String(codec.nid).panic

====
